---- MODULE Spec2Model ----
(***************************************************************************)
(* The interactive review dashboard of beetle.cli (src/src/commands/       *)
(* review.ts): Session State, the navigation controller, the scroll        *)
(* clamping done by the renderer, the merge of polled comments and the     *)
(* event loop (keys, mouse, resize, poll timer, UI tick timer, cleanup).   *)
(*                                                                         *)
(* Indices are 0-based as in the source; a TLA+ sequence s holds the       *)
(* source's s[i] at s[i + 1].                                              *)
(***************************************************************************)
EXTENDS Integers, Sequences, FiniteSets, TLC

VARIABLES
    pc,             \* where the program is: "initial" (reviewCommand's start
                    \* screen), "submitting" (await submitReview), "initialPoll"
                    \* (await of the first pollComments), "dashboard", "exited"
    exitCode,       \* -1 while running; 0 / 1 from process.exit; 143 when killed
    hasChanges,     \* changes.totalFiles > 0
    term,           \* the terminal: alternate screen, cursor, mouse, raw mode
    size,           \* <<columns, rows>> of the terminal
    state,          \* the ReviewState object
    screen,         \* what the last write to the terminal showed
    pollTimer,      \* the poll setInterval is active
    uiTimer,        \* the UI tick setInterval is active
    awaitComments,  \* poll callbacks suspended at `await pollComments`
    awaitStatus,    \* poll callbacks suspended at `await getAnalysisStatus`
    cleanups,       \* cleanup() calls suspended at `await stopAnalysis`
    stopRequests,   \* stop-analysis requests issued so far
    quitPressed,    \* q or Ctrl-C has been pressed since the review was started
    nDown,          \* down presses made (used by the down-press walk only)
    service,        \* the review service: the comments published so far, in
                    \* order, and the analysis status
    promptOnly,     \* --prompt-only mode: the locals of runPromptOnlyMode and
                    \* the comments whose prompt was printed, in order
    clipboard,      \* the text last handed to the clipboard command, <<>> if none
    call            \* a call of a text utility on its own (used by the
                    \* specifications of the text utilities only)

vars == <<pc, exitCode, hasChanges, term, size, state, screen, pollTimer,
          uiTimer, awaitComments, awaitStatus, cleanups, stopRequests,
          quitPressed, nDown, service, promptOnly, clipboard, call>>

----------------------------------------------------------------------------
(* Bounds of the model *)

MaxBatch == 2
MaxInFlight == 1
MaxSpinner == 1
MaxOffset == 3
MaxCleanups == 2
MaxFiles == 3
MaxPerFile == 2
MaxDowns == 10
MaxTokens == 7
MaxWidth == 4
MaxText == 7
MaxLines == 3

(* Constants of the program *)

PageStep == 10
WheelStep == 3
CtrlScrollCap == 1000
FileListHeaderLines == 4
DetailHeaderLines == 5
SpinnerFrames == 10
TitleMax == 60
TitleKeep == 57

Min(a, b) == IF a < b THEN a ELSE b
Max(a, b) == IF a > b THEN a ELSE b

----------------------------------------------------------------------------
(* Comments as the review service returns them.  desc and prompt are the    *)
(* visible lengths of the whitespace-separated tokens of the description    *)
(* and of the AI-fix prompt (<<>> when the comment has none); the comments  *)
(* of the pool carry no "Suggested Fix" section.                            *)

Repeat(x, n) == [i \in 1..n |-> x]

\* promptForm tells how the content carries the AI-fix prompt: "section"
\* (a collapsible section with summary "Prompt for AI"), "inline" (the older
\* bold inline marker), "none".
Comment(id, path, line, title, desc, prompt) ==
    [id |-> id, file_path |-> path, line_start |-> line, title |-> title,
     desc |-> desc, prompt |-> prompt,
     promptForm |-> IF prompt = <<>> THEN "none" ELSE "section"]

\* the same comment with its prompt behind the older inline marker
Inline(c) == [c EXCEPT !.promptForm = IF c.prompt = <<>> THEN "none" ELSE "inline"]

\* no call of a text utility
NoCall == [fn |-> "none", str |-> <<>>, width |-> 0, out |-> <<>>, done |-> FALSE]

\* Comments 1 and 2 are different comments with the same (file path,
\* line-start, title).
CommentPool ==
    { Comment(1, "src/a.ts", 10, "Leak", <<4>>, <<>>),
      Comment(2, "src/a.ts", 10, "Leak", <<4, 4>>, <<>>),
      Comment(3, "src/a.ts", 20, "Leak", <<4>>, <<>>),
      Comment(4, "src/b.ts", 10, "Leak", <<4>>, <<>>) }

\* three comments with different keys: two of one file, one of another
NavPool == { c \in CommentPool : c.id \in {1, 3, 4} }

\* two comments of two files, enough for the life cycle of the session
SmallPool == { c \in CommentPool : c.id \in {1, 4} }

\* a comment whose detail view is longer than a page, with an AI-fix prompt,
\* and a short one
LongPool ==
    { Comment(5, "src/a.ts", 10, "Leak", Repeat(4, 7), <<4>>),
      Comment(6, "src/a.ts", 20, "Race", <<4>>, <<>>) }

\* terminal sizes <<columns, rows>>
Sizes == { <<20, 8>>, <<40, 9>> }

StatusReplies == {"running", "completed", "failed", "interrupted"}

KeyNames == {"q", "c", "tab", "up", "down", "k", "j", "return", "right", "left",
             "escape", "pagedown", "pageup", "d", "u", "x"}

CtrlNames == {"c", "up", "down", "d", "u"}

Keys == [name : KeyNames, ctrl : {FALSE}] \cup [name : CtrlNames, ctrl : {TRUE}]

Key(n) == [name |-> n, ctrl |-> FALSE]

IsQuitKey(key) == key.name = "q" \/ (key.ctrl /\ key.name = "c")

\* the keys of a user who stays in the session
StayKeys == { key \in Keys : ~IsQuitKey(key) }

----------------------------------------------------------------------------
(* Session State *)

InitialState ==
    [mode |-> "list", focusedPanel |-> "left", files |-> <<>>,
     selectedFileIndex |-> 0, selectedCommentIndex |-> -1,
     detailScrollOffset |-> 0, leftPanelScrollOffset |-> 0,
     totalComments |-> 0, resolvedComments |-> 0,
     status |-> "running", spinnerFrame |-> 0]

FileGroup(path, comments, expanded) ==
    [filePath |-> path, comments |-> comments, expanded |-> expanded]

\* state.files[state.selectedFileIndex] is defined
HasFile(s) == s.selectedFileIndex >= 0 /\ s.selectedFileIndex < Len(s.files)

SelectedFile(s) == s.files[s.selectedFileIndex + 1]

\* a variant of FindGroup that never finds the group
FindGroupNone(files, path) == 0

\* index (1-based) of the file group of a path, 0 when there is none
FindGroup(files, path) ==
    IF \E i \in 1..Len(files) : files[i].filePath = path
    THEN CHOOSE i \in 1..Len(files) :
            /\ files[i].filePath = path
            /\ \A j \in 1..(i - 1) : files[j].filePath # path
    ELSE 0

\* a variant of SameKey that compares the ids of the comments
SameKeyById(x, c) == x.id = c.id

SameKey(x, c) == x.line_start = c.line_start /\ x.title = c.title

Exists(comments, c) == \E i \in 1..Len(comments) : SameKey(comments[i], c)

\* a variant of AddComment that puts a new comment first in its group
AddCommentFront(s, c) ==
    LET found == FindGroup(s.files, c.file_path)
        files1 == IF found = 0
                  THEN Append(s.files, FileGroup(c.file_path, <<>>, TRUE))
                  ELSE s.files
        g == IF found = 0 THEN Len(files1) ELSE found
    IN  IF Exists(files1[g].comments, c)
        THEN [s EXCEPT !.files = files1]
        ELSE [s EXCEPT !.files = [files1 EXCEPT ![g].comments = <<c>> \o @],
                       !.totalComments = @ + 1]

\* a variant of AddComment whose new file group starts collapsed
AddCommentCollapsed(s, c) ==
    LET found == FindGroup(s.files, c.file_path)
        files1 == IF found = 0
                  THEN Append(s.files, FileGroup(c.file_path, <<>>, FALSE))
                  ELSE s.files
        g == IF found = 0 THEN Len(files1) ELSE found
    IN  IF Exists(files1[g].comments, c)
        THEN [s EXCEPT !.files = files1]
        ELSE [s EXCEPT !.files = [files1 EXCEPT ![g].comments = Append(@, c)],
                       !.totalComments = @ + 1]

\* a variant of AddComment that counts a comment it does not add
AddCommentCountsAll(s, c) ==
    LET found == FindGroup(s.files, c.file_path)
        files1 == IF found = 0
                  THEN Append(s.files, FileGroup(c.file_path, <<>>, TRUE))
                  ELSE s.files
        g == IF found = 0 THEN Len(files1) ELSE found
    IN  IF Exists(files1[g].comments, c)
        THEN [s EXCEPT !.files = files1, !.totalComments = @ + 1]
        ELSE [s EXCEPT !.files = [files1 EXCEPT ![g].comments = Append(@, c)],
                       !.totalComments = @ + 1]

\* one iteration of the forEach of addComments
AddComment(s, c) ==
    LET found == FindGroup(s.files, c.file_path)
        files1 == IF found = 0
                  THEN Append(s.files, FileGroup(c.file_path, <<>>, TRUE))
                  ELSE s.files
        g == IF found = 0 THEN Len(files1) ELSE found
    IN  IF Exists(files1[g].comments, c)
        THEN [s EXCEPT !.files = files1]
        ELSE [s EXCEPT !.files = [files1 EXCEPT ![g].comments = Append(@, c)],
                       !.totalComments = @ + 1]

RECURSIVE AddComments(_, _)
AddComments(s, comments) ==
    IF comments = <<>> THEN s
    ELSE AddComments(AddComment(s, Head(comments)), Tail(comments))

----------------------------------------------------------------------------
(* Text layout, on visible lengths *)

(* Strings are sequences of characters: "a" a visible character, "." a dot, *)
(* and the characters of colour escape sequences, "E" (\x1B), "[", a digit  *)
(* and "m".  The digit "1" stands for a code that opens a style, "0" for    *)
(* the code that closes it.                                                *)

Digits == {"0", "1"}

OpenEscape == <<"E", "[", "1", "m">>

CloseEscape == <<"E", "[", "0", "m">>

Ellipsis == <<".", ".", ".">>

\* str.substring(0, n)
Substring(str, n) == SubSeq(str, 1, Max(0, Min(n, Len(str))))

\* the first index from j on that holds no digit
RECURSIVE DigitsEnd(_, _)
DigitsEnd(str, j) ==
    IF j <= Len(str) /\ str[j] \in Digits THEN DigitsEnd(str, j + 1) ELSE j

\* the index of the "m" that ends a match of /\x1B\[[0-9;]*m/ starting at i,
\* 0 when there is no match at i
EscapeEnd(str, i) ==
    IF i + 1 <= Len(str) /\ str[i] = "E" /\ str[i + 1] = "["
    THEN LET j == DigitsEnd(str, i + 2)
         IN  IF j <= Len(str) /\ str[j] = "m" THEN j ELSE 0
    ELSE 0

RECURSIVE StripFrom(_, _)
StripFrom(str, i) ==
    IF i > Len(str) THEN <<>>
    ELSE IF EscapeEnd(str, i) > 0 THEN StripFrom(str, EscapeEnd(str, i) + 1)
    ELSE <<str[i]>> \o StripFrom(str, i + 1)

\* stripAnsi
StripAnsi(str) == StripFrom(str, 1)

\* the for loop of truncate; i and ansiStart are 0-based
RECURSIVE TruncateLoop(_, _, _, _, _, _, _)
TruncateLoop(str, maxLen, i, result, visibleCount, inAnsi, ansiStart) ==
    IF ~(i < Len(str) /\ visibleCount < maxLen - 3)
    THEN [result |-> result, inAnsi |-> inAnsi, ansiStart |-> ansiStart]
    ELSE LET char == str[i + 1]
         IN  IF char = "E"
             THEN TruncateLoop(str, maxLen, i + 1, Append(result, char),
                               visibleCount, TRUE, i)
             ELSE IF inAnsi
             THEN IF char = "m"
                  THEN TruncateLoop(str, maxLen, i + 1, Append(result, char),
                                    visibleCount, FALSE, -1)
                  ELSE TruncateLoop(str, maxLen, i + 1, Append(result, char),
                                    visibleCount, inAnsi, ansiStart)
             ELSE TruncateLoop(str, maxLen, i + 1, Append(result, char),
                               visibleCount + 1, inAnsi, ansiStart)

\* truncate
Truncate(str, maxLen) ==
    IF Len(StripAnsi(str)) <= maxLen THEN str
    ELSE LET loop == TruncateLoop(str, maxLen, 0, <<>>, 0, FALSE, -1)
             cut == IF loop.inAnsi /\ loop.ansiStart >= 0
                    THEN LET r1 == Substring(loop.result, loop.ansiStart)
                             visibleCount == Len(StripAnsi(r1))
                         IN  IF visibleCount > maxLen - 3
                             THEN Substring(r1, Len(r1) - (visibleCount - (maxLen - 3)))
                             ELSE r1
                    ELSE loop.result
         IN  cut \o Ellipsis

\* the index of the first character from j on that is not a space
RECURSIVE SpacesEnd(_, _)
SpacesEnd(str, j) ==
    IF j <= Len(str) /\ str[j] = " " THEN SpacesEnd(str, j + 1) ELSE j

\* text.split(/\s+/): the pieces between the runs of spaces, the empty piece
\* before a leading run and after a trailing run included
RECURSIVE SplitFrom(_, _, _)
SplitFrom(str, i, piece) ==
    IF i > Len(str) THEN <<piece>>
    ELSE IF str[i] = " " THEN <<piece>> \o SplitFrom(str, SpacesEnd(str, i), <<>>)
    ELSE SplitFrom(str, i + 1, Append(piece, str[i]))

Split(text) == SplitFrom(text, 1, <<>>)

\* the for loop of wordWrap over words[k..], and the push after it
RECURSIVE WordWrapLoop(_, _, _, _, _)
WordWrapLoop(words, k, maxWidth, lines, currentLine) ==
    IF k > Len(words)
    THEN IF currentLine # <<>> THEN Append(lines, currentLine) ELSE lines
    ELSE LET word == words[k]
             testLine == IF currentLine # <<>> THEN currentLine \o <<" ">> \o word
                         ELSE word
             testLength == Len(StripAnsi(testLine))
         IN  IF testLength > maxWidth
             THEN IF currentLine # <<>>
                  THEN WordWrapLoop(words, k + 1, maxWidth,
                                    Append(lines, currentLine), word)
                  ELSE WordWrapLoop(words, k + 1, maxWidth,
                                    Append(lines, Truncate(word, maxWidth)), <<>>)
             ELSE WordWrapLoop(words, k + 1, maxWidth, lines, testLine)

\* wordWrap on the characters of a text
WordWrapText(text, maxWidth) == WordWrapLoop(Split(text), 1, maxWidth, <<>>, <<>>)

\* visible length of truncate(str, maxLen) for a string without escapes
TruncateLen(len, maxLen) ==
    IF len <= maxLen THEN len ELSE Max(0, maxLen - 3) + 3

\* wordWrap: the visible lengths of the lines made of the tokens `words`
RECURSIVE WrapFrom(_, _, _, _)
WrapFrom(words, maxWidth, lines, cur) ==
    IF words = <<>>
    THEN IF cur > 0 THEN Append(lines, cur) ELSE lines
    ELSE LET w == Head(words)
             test == IF cur > 0 THEN cur + 1 + w ELSE w
         IN  IF test > maxWidth
             THEN IF cur > 0
                  THEN WrapFrom(Tail(words), maxWidth, Append(lines, cur), w)
                  ELSE WrapFrom(Tail(words), maxWidth,
                                Append(lines, TruncateLen(w, maxWidth)), 0)
             ELSE WrapFrom(Tail(words), maxWidth, lines, test)

WordWrap(words, maxWidth) == WrapFrom(words, maxWidth, <<>>, 0)

----------------------------------------------------------------------------
(* Comment parsing.  The raw content of a comment is a sequence of tokens:  *)
(* "details", "summary", "/summary" and "/details" for the tags of a         *)
(* collapsible section, "fix" and "prompt" for the summaries "Suggested     *)
(* Fix" and "Prompt for AI", "fence" for a line of three backticks,         *)
(* the metadata markers "sev" for Severity, "title" for Title, "lstart" for *)
(* Line_Start and "lend" for Line_End (each bold, with a colon), words      *)
(* ("X", "T", and "long", a word of 61 characters), numbers ("7", "9") and  *)
(* "nl", the newline.  Two neighbours on one line are one space apart.      *)

Words == {"X", "T", "long"}

Numbers == {"7", "9"}

Markers == {"sev", "title", "lstart", "lend"}

\* the number of characters of a token
TokenLen(t) ==
    CASE t = "long" -> 61
      [] t = "sev" -> 13
      [] t = "title" -> 10
      [] t = "lstart" -> 15
      [] t = "lend" -> 13
      [] t = "nl" -> 1
      [] OTHER -> 1

\* the number of characters of a line of tokens
RECURSIVE LineLen(_)
LineLen(line) ==
    IF line = <<>> THEN 0
    ELSE IF Len(line) = 1 THEN TokenLen(line[1])
    ELSE TokenLen(Head(line)) + 1 + LineLen(Tail(line))

\* \s* from position j: the first position that holds no newline
RECURSIVE SkipSpace(_, _)
SkipSpace(content, j) ==
    IF j <= Len(content) /\ content[j] = "nl" THEN SkipSpace(content, j + 1) ELSE j

\* [^\n]* from position j: the first position that holds a newline, or the end
RECURSIVE RestOfLine(_, _)
RestOfLine(content, j) ==
    IF j <= Len(content) /\ content[j] # "nl" THEN RestOfLine(content, j + 1) ELSE j

\* content.match(/<marker>\s*(<class>+)/i)?.[1] for a class of single tokens
\* (\w+ , \d+): the token after the first marker that is followed, across
\* white space, by a token of the class; <<>> when there is no match
RECURSIVE MarkerValueFrom(_, _, _, _)
MarkerValueFrom(content, i, marker, class) ==
    IF i > Len(content) THEN <<>>
    ELSE LET j == SkipSpace(content, i + 1)
         IN  IF content[i] = marker /\ j <= Len(content) /\ content[j] \in class
             THEN <<content[j]>>
             ELSE MarkerValueFrom(content, i + 1, marker, class)

\* a variant of SeverityMatch that looks for the marker at the start only
SeverityMatchAtStart(content) ==
    IF content # <<>> /\ content[1] = "sev" /\ Len(content) >= 2 /\ content[2] \in Words \cup Numbers
    THEN <<content[2]>> ELSE <<>>

SeverityMatch(content) == MarkerValueFrom(content, 1, "sev", Words \cup Numbers)

LineStartMatch(content) == MarkerValueFrom(content, 1, "lstart", Numbers)

LineEndMatch(content) == MarkerValueFrom(content, 1, "lend", Numbers)

\* content.match(/\*\*Title\*\*:\s*([^\n]+)/i)?.[1]: the rest of the line that
\* follows the first title marker across white space
RECURSIVE TitleMatchFrom(_, _)
TitleMatchFrom(content, i) ==
    IF i > Len(content) THEN <<>>
    ELSE LET j == SkipSpace(content, i + 1)
         IN  IF content[i] = "title" /\ j <= Len(content)
             THEN SubSeq(content, j, RestOfLine(content, j) - 1)
             ELSE TitleMatchFrom(content, i + 1)

TitleMatch(content) == TitleMatchFrom(content, 1)

\* content.replace(/<marker>[^\n]*\n?/gi, '')
RECURSIVE RemoveMarkerFrom(_, _, _)
RemoveMarkerFrom(content, i, marker) ==
    IF i > Len(content) THEN <<>>
    ELSE IF content[i] = marker
    THEN RemoveMarkerFrom(content, RestOfLine(content, i) + 1, marker)
    ELSE <<content[i]>> \o RemoveMarkerFrom(content, i + 1, marker)

RemoveMarker(content, marker) == RemoveMarkerFrom(content, 1, marker)

\* the index of the last token that is no newline, 0 if there is none
RECURSIVE LastText(_, _)
LastText(content, j) ==
    IF j >= 1 /\ content[j] = "nl" THEN LastText(content, j - 1) ELSE j

\* trim
Trim(content) ==
    SubSeq(content, SkipSpace(content, 1), LastText(content, Len(content)))

\* the first position from j on that holds the token t, Len + 1 if none
RECURSIVE FirstAt(_, _, _)
FirstAt(content, j, t) ==
    IF j <= Len(content) /\ content[j] # t THEN FirstAt(content, j + 1, t) ELSE j

\* content.match(/<details>\s*<summary>\s*NAME\s*<\/summary>([\s\S]*?)<\/details>/i):
\* the first "details" token that is followed, across white space, by the
\* summary tokens with this name and, anywhere later, by a "/details" token;
\* the capture is what lies between "/summary" and the first "/details"
RECURSIVE SectionMatchFrom(_, _, _)
SectionMatchFrom(content, i, name) ==
    IF i > Len(content) THEN [found |-> FALSE, body |-> <<>>]
    ELSE LET a == SkipSpace(content, i + 1)
             b == SkipSpace(content, a + 1)
             c == SkipSpace(content, b + 1)
             e == FirstAt(content, c + 1, "/details")
         IN  IF /\ content[i] = "details"
                /\ a <= Len(content) /\ content[a] = "summary"
                /\ b <= Len(content) /\ content[b] = name
                /\ c <= Len(content) /\ content[c] = "/summary"
                /\ e <= Len(content)
             THEN [found |-> TRUE, body |-> SubSeq(content, c + 1, e - 1)]
             ELSE SectionMatchFrom(content, i + 1, name)

FixMatch(content) == SectionMatchFrom(content, 1, "fix")

\* content.match(/```[\s\S]*?```/g): the first fenced block, <<>> if none
GenericMatch(content) ==
    LET i == FirstAt(content, 1, "fence")
        j == FirstAt(content, i + 1, "fence")
    IN  IF j <= Len(content) THEN SubSeq(content, i, j) ELSE <<>>

\* a variant of CodeBlock that falls back on the first fenced block
CodeBlockOrFence(content) ==
    IF FixMatch(content).found THEN Trim(FixMatch(content).body)
    ELSE GenericMatch(content)

\* codeBlock of parseCommentMetadata: the fenced blocks are matched when
\* there is no "Suggested Fix" section, and nothing is done with the matches
CodeBlock(content) ==
    IF FixMatch(content).found THEN Trim(FixMatch(content).body)
    ELSE IF GenericMatch(content) # <<>> THEN <<>> ELSE <<>>

\* .replace(/<details>[\s\S]*?<\/details>/gi, '')
RECURSIVE RemoveDetails(_, _)
RemoveDetails(content, i) ==
    IF i > Len(content) THEN <<>>
    ELSE LET e == FirstAt(content, i + 1, "/details")
         IN  IF content[i] = "details" /\ e <= Len(content)
             THEN RemoveDetails(content, e + 1)
             ELSE <<content[i]>> \o RemoveDetails(content, i + 1)

\* the description: the content without its metadata and its collapsible
\* sections, trimmed
Description(content) ==
    Trim(RemoveDetails(RemoveMarker(RemoveMarker(RemoveMarker(RemoveMarker(content,
         "lstart"), "lend"), "sev"), "title"), 1))

\* description.split('\n').find(l => l.trim().length > 0) || ''
FirstLine(description) ==
    LET j == SkipSpace(description, 1)
    IN  SubSeq(description, j, RestOfLine(description, j) - 1)

\* parseInt of a captured number, or of '0'
ParseInt(match) ==
    IF match = <<>> THEN 0 ELSE IF match[1] = "7" THEN 7 ELSE 9

\* A title is the text it is taken from, its number of characters, and
\* whether it ends in the ellipsis put in place of the cut part.
TitleOf(text) == [text |-> text, len |-> LineLen(text), ellipsis |-> FALSE]

IssueIdentified == [text |-> <<"Issue Identified">>, len |-> 16, ellipsis |-> FALSE]

\* the title derived from the first non-empty line of the description
DerivedTitle(description) ==
    LET firstLine == FirstLine(description)
    IN  IF LineLen(firstLine) > TitleMax
        THEN [text |-> firstLine, len |-> TitleKeep + 3, ellipsis |-> TRUE]
        ELSE TitleOf(firstLine)

\* parseCommentMetadata (title, severity, lineStart, lineEnd, description,
\* codeBlock)
ParseCommentMetadata(content) ==
    LET description == Description(content)
        explicit == TitleMatch(content)
        title == IF explicit # <<>> THEN TitleOf(explicit)
                 ELSE IF description # <<>> /\ FirstLine(description) # <<>>
                      THEN DerivedTitle(description)
                      ELSE IssueIdentified
    IN  [title |-> title,
         severity |-> IF SeverityMatch(content) # <<>> THEN SeverityMatch(content)[1]
                      ELSE "Medium",
         lineStart |-> ParseInt(LineStartMatch(content)),
         lineEnd |-> ParseInt(LineEndMatch(content)),
         description |-> description,
         codeBlock |-> CodeBlock(content)]

----------------------------------------------------------------------------
(* Renderer: the line counts of the two panels and the clamping of the     *)
(* stored scroll offsets.                                                  *)

LeftWidth(width) == (width * 35) \div 100

RightWidth(width) == width - LeftWidth(width) - 3

ContentHeight(height) == (height - 1) - 5

RECURSIVE NavigableLines(_)
NavigableLines(files) ==
    IF files = <<>> THEN 0
    ELSE 1 + (IF Head(files).expanded THEN Len(Head(files).comments) ELSE 0)
           + NavigableLines(Tail(files))

\* totalLines of renderFileList: the header lines are there only when the
\* requested offset is 0
FileListTotalLines(s, scrollOffset) ==
    (IF scrollOffset = 0 THEN FileListHeaderLines ELSE 0) + NavigableLines(s.files)

\* formatMarkdown of a one-paragraph description
FormatMarkdown(desc, maxWidth) == WordWrap(desc, maxWidth)

\* the match of the inline prompt marker in the raw content of a comment:
\* the text after a bold "Prompt for AI" / "Prompt to Fix with AI" marker,
\* <<>> when the content has no such marker
InlinePromptMatch(c) == IF c.promptForm = "inline" THEN c.prompt ELSE <<>>

\* aiPrompt of parseCommentMetadata: the content of the "Prompt for AI"
\* section when there is one, else the match of the older inline marker
AiPrompt(c) ==
    IF c.promptForm = "section" THEN c.prompt ELSE InlinePromptMatch(c)

\* totalLines of renderCommentDetail
CommentDetailTotalLines(s, width, scrollOffset) ==
    IF \/ ~HasFile(s)
       \/ s.selectedCommentIndex < 0
       \/ s.selectedCommentIndex >= Len(SelectedFile(s).comments)
    THEN 1
    ELSE LET c == SelectedFile(s).comments[s.selectedCommentIndex + 1]
         IN  (IF scrollOffset = 0 THEN DetailHeaderLines ELSE 0)
             + Len(FormatMarkdown(c.desc, width - 4)) + 1
             + (IF AiPrompt(c) # <<>>
                THEN 3 + Len(WordWrap(AiPrompt(c), width - 4)) + 2
                ELSE 0)

LeftTotalLines(s, sz) == FileListTotalLines(s, s.leftPanelScrollOffset)

RightTotalLines(s, sz) ==
    CommentDetailTotalLines(s, RightWidth(sz[1]), s.detailScrollOffset)

\* a variant of MaxScroll without the floor of 0
MaxScrollNoFloor(totalLines, viewport) == totalLines - viewport

MaxScroll(totalLines, viewport) == Max(0, totalLines - viewport)

\* a variant of Clamp that goes back to the top when the offset is out of range
ClampToTop(offset, maxScroll) == IF offset > maxScroll THEN 0 ELSE offset

\* a variant of Clamp that keeps the requested offset
ClampNone(offset, maxScroll) == offset

Clamp(offset, maxScroll) == Min(offset, maxScroll)

\* the state renderSplitView leaves behind
RenderSplitView(s, sz) ==
    LET contentHeight == ContentHeight(sz[2])
        leftMaxScroll == MaxScroll(LeftTotalLines(s, sz), contentHeight)
        rightMaxScroll == MaxScroll(RightTotalLines(s, sz), contentHeight)
    IN  [s EXCEPT !.leftPanelScrollOffset = Clamp(@, leftMaxScroll),
                  !.detailScrollOffset = Clamp(@, rightMaxScroll)]

\* renderListView reads the state and stores nothing
RenderListView(s, sz) == s

Render(s, sz) ==
    IF s.mode = "detail" THEN RenderSplitView(s, sz) ELSE RenderListView(s, sz)

\* What render(s) writes with the terminal at size sz: the layout, the
\* footer's status indicator, and the line counts of the panels' content
\* (renderListView asks renderFileList for offset 0 and has no right panel).
Shown(s, sz) ==
    [view |-> IF s.mode = "detail" THEN "split" ELSE "list",
     spin |-> s.status = "running",
     frame |-> IF s.status = "running" THEN s.spinnerFrame % SpinnerFrames ELSE 0,
     leftTotal |-> IF s.mode = "detail" THEN LeftTotalLines(s, sz)
                   ELSE FileListTotalLines(s, 0),
     rightTotal |-> IF s.mode = "detail" THEN RightTotalLines(s, sz) ELSE 0]

\* a screen without the dashboard: start screen, loading screen, or none
Blank(view) ==
    [view |-> view, spin |-> FALSE, frame |-> 0, leftTotal |-> 0, rightTotal |-> 0]

----------------------------------------------------------------------------
(* Navigation controller *)

\* a variant of Reset that does not look at the mode
ResetAlways(s) == [s EXCEPT !.detailScrollOffset = 0]

Reset(s) == IF s.mode = "detail" THEN [s EXCEPT !.detailScrollOffset = 0] ELSE s

\* a variant of NavigateUp that enters the previous file one past its last
\* comment
NavigateUpPastLast(s) ==
    Reset(
      IF s.selectedCommentIndex > 0
      THEN [s EXCEPT !.selectedCommentIndex = @ - 1]
      ELSE IF s.selectedCommentIndex = 0
      THEN [s EXCEPT !.selectedCommentIndex = -1]
      ELSE IF s.selectedFileIndex > 0
      THEN LET prevFile == s.files[s.selectedFileIndex]
           IN  [s EXCEPT !.selectedFileIndex = @ - 1,
                         !.selectedCommentIndex =
                             IF prevFile.expanded /\ Len(prevFile.comments) > 0
                             THEN Len(prevFile.comments)
                             ELSE -1]
      ELSE s)

\* a variant of NavigateUp that lands on the header of the previous file
NavigateUpToHeader(s) ==
    Reset(
      IF s.selectedCommentIndex > 0
      THEN [s EXCEPT !.selectedCommentIndex = @ - 1]
      ELSE IF s.selectedCommentIndex = 0
      THEN [s EXCEPT !.selectedCommentIndex = -1]
      ELSE IF s.selectedFileIndex > 0
      THEN [s EXCEPT !.selectedFileIndex = @ - 1, !.selectedCommentIndex = -1]
      ELSE s)

\* a variant of NavigateUp that enters the previous file whether or not it
\* is expanded
NavigateUpIntoCollapsed(s) ==
    Reset(
      IF s.selectedCommentIndex > 0
      THEN [s EXCEPT !.selectedCommentIndex = @ - 1]
      ELSE IF s.selectedCommentIndex = 0
      THEN [s EXCEPT !.selectedCommentIndex = -1]
      ELSE IF s.selectedFileIndex > 0
      THEN LET prevFile == s.files[s.selectedFileIndex]
           IN  [s EXCEPT !.selectedFileIndex = @ - 1,
                         !.selectedCommentIndex =
                             IF Len(prevFile.comments) > 0
                             THEN Len(prevFile.comments) - 1
                             ELSE -1]
      ELSE s)

NavigateUp(s) ==
    Reset(
      IF s.selectedCommentIndex > 0
      THEN [s EXCEPT !.selectedCommentIndex = @ - 1]
      ELSE IF s.selectedCommentIndex = 0
      THEN [s EXCEPT !.selectedCommentIndex = -1]
      ELSE IF s.selectedFileIndex > 0
      THEN LET prevFile == s.files[s.selectedFileIndex]
           IN  [s EXCEPT !.selectedFileIndex = @ - 1,
                         !.selectedCommentIndex =
                             IF prevFile.expanded /\ Len(prevFile.comments) > 0
                             THEN Len(prevFile.comments) - 1
                             ELSE -1]
      ELSE s)

\* a variant of NavigateDown that does not enter a file of one comment
NavigateDownSkipLast(s) ==
    IF ~HasFile(s) THEN s
    ELSE LET file == SelectedFile(s)
         IN  Reset(
               IF s.selectedCommentIndex = -1
               THEN IF file.expanded /\ Len(file.comments) > 1
                    THEN [s EXCEPT !.selectedCommentIndex = 0]
                    ELSE IF s.selectedFileIndex < Len(s.files) - 1
                    THEN [s EXCEPT !.selectedFileIndex = @ + 1,
                                   !.selectedCommentIndex = -1]
                    ELSE s
               ELSE IF s.selectedCommentIndex < Len(file.comments) - 1
               THEN [s EXCEPT !.selectedCommentIndex = @ + 1]
               ELSE IF s.selectedFileIndex < Len(s.files) - 1
               THEN [s EXCEPT !.selectedFileIndex = @ + 1,
                              !.selectedCommentIndex = -1]
               ELSE s)

NavigateDown(s) ==
    IF ~HasFile(s) THEN s
    ELSE LET file == SelectedFile(s)
         IN  Reset(
               IF s.selectedCommentIndex = -1
               THEN IF file.expanded /\ Len(file.comments) > 0
                    THEN [s EXCEPT !.selectedCommentIndex = 0]
                    ELSE IF s.selectedFileIndex < Len(s.files) - 1
                    THEN [s EXCEPT !.selectedFileIndex = @ + 1,
                                   !.selectedCommentIndex = -1]
                    ELSE s
               ELSE IF s.selectedCommentIndex < Len(file.comments) - 1
               THEN [s EXCEPT !.selectedCommentIndex = @ + 1]
               ELSE IF s.selectedFileIndex < Len(s.files) - 1
               THEN [s EXCEPT !.selectedFileIndex = @ + 1,
                              !.selectedCommentIndex = -1]
               ELSE s)

Result(s, action) == [state |-> s, action |-> action]

LeftFocus(s) == s.mode = "list" \/ (s.mode = "detail" /\ s.focusedPanel = "left")

IsUp(name) == name = "up" \/ name = "k"

IsDown(name) == name = "down" \/ name = "j"

\* a variant of ToggleExpand that flips the flag of every file
ToggleExpandAll(s) ==
    [s EXCEPT !.files = [i \in 1..Len(s.files) |-> [s.files[i] EXCEPT !.expanded = ~@]]]

\* the toggle of the selected file's expanded flag
ToggleExpand(s) ==
    IF HasFile(s)
    THEN [s EXCEPT !.files[s.selectedFileIndex + 1].expanded = ~@,
                   !.selectedCommentIndex =
                       IF SelectedFile(s).expanded THEN -1 ELSE @]
    ELSE s

\* a variant of EnterDetail that keeps the stored offsets
EnterDetailKeepsScroll(s) == [s EXCEPT !.mode = "detail", !.focusedPanel = "right"]

\* the switch to the detail view
EnterDetail(s) ==
    [s EXCEPT !.mode = "detail", !.focusedPanel = "right",
              !.detailScrollOffset = 0, !.leftPanelScrollOffset = 0]

\* a variant of StepBack that always leaves the detail view
StepBackToList(s) == [s EXCEPT !.mode = "list"]

\* the way back from the detail view, one level per press
StepBack(s) ==
    IF s.focusedPanel = "right"
    THEN [s EXCEPT !.focusedPanel = "left"]
    ELSE [s EXCEPT !.mode = "list"]

HandleKeypress(s, key) ==
    LET name == key.name
        ctrl == key.ctrl
    IN  IF name = "q" \/ (ctrl /\ name = "c")
        THEN Result(s, "quit")
        ELSE IF s.mode = "detail" /\ name = "tab"
        THEN Result([s EXCEPT !.focusedPanel =
                         IF @ = "left" THEN "right" ELSE "left"], "render")
        ELSE IF s.mode = "detail" /\ s.focusedPanel = "left" /\ ctrl /\ IsUp(name)
        THEN Result([s EXCEPT !.leftPanelScrollOffset = Max(0, @ - 1)], "render")
        ELSE IF s.mode = "detail" /\ s.focusedPanel = "left" /\ ctrl /\ IsDown(name)
        THEN Result([s EXCEPT !.leftPanelScrollOffset = Min(CtrlScrollCap, @ + 1)],
                    "render")
        ELSE IF LeftFocus(s) /\ IsUp(name)
        THEN Result(NavigateUp(s), "render")
        ELSE IF LeftFocus(s) /\ IsDown(name)
        THEN Result(NavigateDown(s), "render")
        ELSE IF s.mode = "detail" /\ s.focusedPanel = "right" /\ IsUp(name)
        THEN Result([s EXCEPT !.detailScrollOffset = Max(0, @ - 1)], "render")
        ELSE IF s.mode = "detail" /\ s.focusedPanel = "right" /\ IsDown(name)
        THEN Result([s EXCEPT !.detailScrollOffset = @ + 1], "render")
        ELSE IF (name = "right" \/ name = "return")
                /\ s.selectedCommentIndex >= 0 /\ s.mode = "list"
        THEN Result(EnterDetail(s), "render")
        ELSE IF (name = "left" \/ name = "escape") /\ s.mode = "detail"
        THEN Result(StepBack(s), "render")
        ELSE IF LeftFocus(s) /\ name = "return" /\ s.selectedCommentIndex = -1
        THEN Result(ToggleExpand(s), "render")
        ELSE IF s.mode = "detail" /\ (name = "pagedown" \/ (ctrl /\ name = "d"))
        THEN IF s.focusedPanel = "right"
             THEN Result([s EXCEPT !.detailScrollOffset = @ + PageStep], "render")
             ELSE Result([s EXCEPT !.leftPanelScrollOffset = @ + PageStep], "render")
        ELSE IF s.mode = "detail" /\ (name = "pageup" \/ (ctrl /\ name = "u"))
        THEN IF s.focusedPanel = "right"
             THEN Result([s EXCEPT !.detailScrollOffset = Max(0, @ - PageStep)],
                         "render")
             ELSE Result([s EXCEPT !.leftPanelScrollOffset = Max(0, @ - PageStep)],
                         "render")
        ELSE IF name = "c"
        THEN Result(s, "copy")
        ELSE Result(s, "none")

----------------------------------------------------------------------------
(* The program: reviewCommand, runReviewSession and the event loop.  The   *)
(* process runs on a TTY; every callback runs to completion before the     *)
(* next one starts, so each action below is one callback (or the part of   *)
(* an async function between two awaits).  The actions that take input     *)
(* from the user or the review service are parameterised by the set the    *)
(* input is drawn from.                                                    *)

Terminal(alt, hidden, mouse, raw) ==
    [altScreen |-> alt, cursorHidden |-> hidden, mouse |-> mouse, raw |-> raw]

\* the mode of the terminal before the command took it over
OriginalTerminal == Terminal(FALSE, FALSE, FALSE, FALSE)

\* exitAlternateScreen()
ExitAlternateScreen(t) == [t EXCEPT !.cursorHidden = FALSE, !.altScreen = FALSE]

\* setRawMode(false)
RawModeOff(t) == [t EXCEPT !.raw = FALSE]

\* process.stdout.write(MOUSE_DISABLE)
MouseDisable(t) == [t EXCEPT !.mouse = FALSE]

\* the review service before a review is submitted
NoService == [comments |-> <<>>, status |-> "running"]

\* the locals of runPromptOnlyMode before the poll loop
NoPrompt == [processedCommentIds |-> {}, parsed |-> <<>>, printed |-> <<>>,
             status |-> "running"]

timerVars == <<pollTimer, uiTimer, awaitComments, awaitStatus>>
quitVars == <<cleanups, stopRequests, quitPressed>>
procVars == <<pc, exitCode, hasChanges, term>>

\* The process ends: its memory (Session State, timers, pending callbacks) is
\* gone; the terminal and what was asked of the review service remain.
ProcessEnds(code, t) ==
    /\ pc' = "exited"
    /\ exitCode' = code
    /\ term' = t
    /\ screen' = Blank("none")
    /\ hasChanges' = FALSE
    /\ state' = InitialState
    /\ pollTimer' = FALSE
    /\ uiTimer' = FALSE
    /\ awaitComments' = 0
    /\ awaitStatus' = 0
    /\ cleanups' = 0
    /\ UNCHANGED <<size, stopRequests, quitPressed, nDown, service, promptOnly, clipboard, call>>

\* reviewCommand up to process.stdin.resume(): alternate screen entered,
\* cursor hidden, raw mode on, the start screen shown
Init ==
    /\ pc = "initial"
    /\ exitCode = -1
    /\ hasChanges \in BOOLEAN
    /\ term = Terminal(TRUE, TRUE, FALSE, TRUE)
    /\ size \in Sizes
    /\ state = InitialState
    /\ screen = Blank("initial")
    /\ pollTimer = FALSE
    /\ uiTimer = FALSE
    /\ awaitComments = 0
    /\ awaitStatus = 0
    /\ cleanups = 0
    /\ stopRequests = 0
    /\ quitPressed = FALSE
    /\ nDown = 0
    /\ service = NoService
    /\ promptOnly = NoPrompt
    /\ clipboard = <<>>
    /\ call = NoCall

\* cleanup() of reviewCommand
InitialCleanup(t) == RawModeOff(ExitAlternateScreen(t))

\* the keypress handler of reviewCommand: quit
InitialQuit ==
    /\ pc = "initial"
    /\ ProcessEnds(0, InitialCleanup(term))

\* the keypress handler of reviewCommand: r refreshes the changed files
InitialRefresh ==
    /\ pc = "initial"
    /\ hasChanges' \in BOOLEAN
    /\ screen' = Blank("initial")
    /\ UNCHANGED <<pc, exitCode, term, size, state, timerVars, quitVars, nDown, service, promptOnly, clipboard, call>>

\* the keypress handler of reviewCommand: Enter starts runReviewSession, which
\* shows the loading screen and awaits submitReview
StartReview ==
    /\ pc = "initial"
    /\ hasChanges
    /\ pc' = "submitting"
    /\ screen' = Blank("loading")
    /\ UNCHANGED <<exitCode, hasChanges, term, size, state, timerVars, quitVars,
                   nDown, service, promptOnly, clipboard, call>>

\* a key pressed while runReviewSession awaits submitReview or the initial
\* poll: the keypress listeners of the start screen have been removed and the
\* listener of the dashboard is not installed yet, so no code runs (in raw
\* mode Ctrl-C raises no signal)
StartupKey(keys) ==
    /\ pc \in {"submitting", "initialPoll"}
    /\ \E key \in keys : quitPressed' = (quitPressed \/ IsQuitKey(key))
    /\ UNCHANGED <<procVars, size, state, screen, timerVars, cleanups,
                   stopRequests, nDown, service, promptOnly, clipboard, call>>

\* submitReview resolved: Session State is created and the initial poll issued
SubmitResolved ==
    /\ pc = "submitting"
    /\ pc' = "initialPoll"
    /\ state' = InitialState
    /\ UNCHANGED <<exitCode, hasChanges, term, size, screen, timerVars, quitVars,
                   nDown, service, promptOnly, clipboard, call>>

\* the catch of runReviewSession
StartupFailure(t) == ExitAlternateScreen(t)

\* submitReview rejected
SubmitRejected ==
    /\ pc = "submitting"
    /\ ProcessEnds(1, StartupFailure(term))

Batches(pool) == UNION { [1..n -> pool] : n \in 0..MaxBatch }

\* the initial poll has answered or failed (an empty batch); first render;
\* both timers and the handlers are set up
InitialPollDone(pool) ==
    /\ pc = "initialPoll"
    /\ \E batch \in Batches(pool) :
        /\ state' = Render(AddComments(state, batch), size)
        /\ screen' = Shown(AddComments(state, batch), size)
    /\ pollTimer' = TRUE
    /\ uiTimer' = TRUE
    /\ term' = [term EXCEPT !.raw = TRUE]
    /\ pc' = "dashboard"
    /\ UNCHANGED <<exitCode, hasChanges, size, awaitComments, awaitStatus,
                   quitVars, nDown, service, promptOnly, clipboard, call>>

\* the poll timer fires: a poll cycle starts with a poll-comments request,
\* whether or not earlier cycles are still awaiting a reply (the model stops
\* at `limit` cycles in flight)
PollFire(limit) ==
    /\ pc = "dashboard"
    /\ pollTimer
    /\ awaitComments + awaitStatus < limit
    /\ awaitComments' = awaitComments + 1
    /\ UNCHANGED <<procVars, size, state, screen, pollTimer, uiTimer, awaitStatus,
                   quitVars, nDown, service, promptOnly, clipboard, call>>

\* pollComments resolved: merge, render, and ask for the status
PollCommentsReply(pool) ==
    /\ pc = "dashboard"
    /\ awaitComments > 0
    /\ \E batch \in Batches(pool) :
        IF Len(batch) > 0
        THEN /\ state' = Render(AddComments(state, batch), size)
             /\ screen' = Shown(AddComments(state, batch), size)
        ELSE UNCHANGED <<state, screen>>
    /\ awaitComments' = awaitComments - 1
    /\ awaitStatus' = awaitStatus + 1
    /\ UNCHANGED <<procVars, size, pollTimer, uiTimer, quitVars, nDown, service, promptOnly, clipboard, call>>

\* a variant of PollCommentsFail whose catch stops the poll timer
PollCommentsFailStops ==
    /\ pc = "dashboard"
    /\ awaitComments > 0
    /\ awaitComments' = awaitComments - 1
    /\ pollTimer' = FALSE
    /\ UNCHANGED <<procVars, size, state, screen, uiTimer, awaitStatus,
                   quitVars, nDown, service, promptOnly, clipboard, call>>

\* pollComments rejected: the catch ends the cycle
PollCommentsFail ==
    /\ pc = "dashboard"
    /\ awaitComments > 0
    /\ awaitComments' = awaitComments - 1
    /\ UNCHANGED <<procVars, size, state, screen, pollTimer, uiTimer, awaitStatus,
                   quitVars, nDown, service, promptOnly, clipboard, call>>

\* a variant of StatusReply that leaves the poll timer running
StatusReplyKeepsTimer(replies) ==
    /\ pc = "dashboard"
    /\ awaitStatus > 0
    /\ \E reply \in replies :
        IF reply # "running"
        THEN /\ state' = Render([state EXCEPT !.status = reply], size)
             /\ screen' = Shown([state EXCEPT !.status = reply], size)
             /\ UNCHANGED pollTimer
        ELSE UNCHANGED <<state, pollTimer, screen>>
    /\ awaitStatus' = awaitStatus - 1
    /\ UNCHANGED <<procVars, size, uiTimer, awaitComments, quitVars, nDown, service, promptOnly, clipboard, call>>

\* getAnalysisStatus resolved
StatusReply(replies) ==
    /\ pc = "dashboard"
    /\ awaitStatus > 0
    /\ \E reply \in replies :
        IF reply # "running"
        THEN /\ state' = Render([state EXCEPT !.status = reply], size)
             /\ pollTimer' = FALSE
             /\ screen' = Shown([state EXCEPT !.status = reply], size)
        ELSE UNCHANGED <<state, pollTimer, screen>>
    /\ awaitStatus' = awaitStatus - 1
    /\ UNCHANGED <<procVars, size, uiTimer, awaitComments, quitVars, nDown, service, promptOnly, clipboard, call>>

\* getAnalysisStatus rejected
StatusFail ==
    /\ pc = "dashboard"
    /\ awaitStatus > 0
    /\ awaitStatus' = awaitStatus - 1
    /\ UNCHANGED <<procVars, size, state, screen, pollTimer, uiTimer,
                   awaitComments, quitVars, nDown, service, promptOnly, clipboard, call>>

\* a variant of UiTick without the test of the status
UiTickAlways(s) == [s EXCEPT !.spinnerFrame = @ + 1]

\* a variant of UiTick that advances the spinner by two frames
UiTickTwice(s) ==
    IF s.status = "running" THEN [s EXCEPT !.spinnerFrame = @ + 2] ELSE s

\* the callback of the UI tick timer
UiTick(s) ==
    IF s.status = "running" THEN [s EXCEPT !.spinnerFrame = @ + 1] ELSE s

\* the UI tick timer fires
Tick ==
    /\ pc = "dashboard"
    /\ uiTimer
    /\ IF state.status = "running"
       THEN /\ state.spinnerFrame < MaxSpinner
            /\ state' = Render(UiTick(state), size)
            /\ screen' = Shown(UiTick(state), size)
       ELSE /\ state' = UiTick(state)
            /\ UNCHANGED screen
    /\ UNCHANGED <<procVars, size, timerVars, quitVars, nDown, service, promptOnly, clipboard, call>>

\* the terminal is resized; the resize handler registered at that time runs
Resize ==
    /\ pc # "exited"
    /\ \E sz \in Sizes :
        /\ sz # size
        /\ size' = sz
        /\ IF pc = "dashboard"
           THEN /\ state' = Render(state, sz)
                /\ screen' = Shown(state, sz)
           ELSE IF pc = "initial"
           THEN /\ screen' = Blank("initial")
                /\ UNCHANGED state
           ELSE UNCHANGED <<state, screen>>
    /\ UNCHANGED <<procVars, timerVars, quitVars, nDown, service, promptOnly, clipboard, call>>

\* the text the copy branch of the keypress handler hands to the clipboard
\* command, <<>> when it does not run the command
Copied(s) ==
    IF HasFile(s) /\ s.selectedCommentIndex >= 0
    THEN InlinePromptMatch(SelectedFile(s).comments[s.selectedCommentIndex + 1])
    ELSE <<>>

\* a key press in the dashboard: handleKeypress, then the action it reports
KeyStep(keys) ==
    /\ pc = "dashboard"
    /\ \E key \in keys :
        LET result == HandleKeypress(state, key)
        IN  IF result.action = "quit"
            THEN \* cleanup() runs up to `await stopAnalysis`
                 /\ cleanups < MaxCleanups
                 /\ cleanups' = cleanups + 1
                 /\ stopRequests' = stopRequests + 1
                 /\ quitPressed' = TRUE
                 /\ UNCHANGED <<state, screen, clipboard>>
            ELSE IF result.action = "render"
            THEN /\ state' = Render(result.state, size)
                 /\ screen' = Shown(result.state, size)
                 /\ UNCHANGED <<quitVars, clipboard>>
            ELSE IF result.action = "copy"
            THEN /\ state' = result.state
                 /\ clipboard' = IF Copied(result.state) # <<>>
                                 THEN Copied(result.state) ELSE clipboard
                 /\ UNCHANGED <<screen, quitVars>>
            ELSE /\ state' = result.state
                 /\ UNCHANGED <<screen, quitVars, clipboard>>
    /\ UNCHANGED <<procVars, size, timerVars, call>>

KeyPress(keys) == KeyStep(keys) /\ UNCHANGED <<nDown, service, promptOnly>>

\* button codes: 0 left button, 64 wheel up, 65 wheel down
MouseButtons == {0, 64, 65}

\* pointer columns: the last column of the left panel and the one after it
MouseColumns(width) == {LeftWidth(width), LeftWidth(width) + 1}

\* a variant of Wheel that scrolls the focused panel
WheelFocused(s, b, x, width) ==
    LET delta == IF b = 64 THEN -WheelStep ELSE WheelStep
    IN  IF s.focusedPanel = "left"
        THEN [s EXCEPT !.leftPanelScrollOffset = Max(0, @ + delta)]
        ELSE [s EXCEPT !.detailScrollOffset = Max(0, @ + delta)]

\* the scroll-wheel branch of the keypress handler
Wheel(s, b, x, width) ==
    LET delta == IF b = 64 THEN -WheelStep ELSE WheelStep
    IN  IF x <= LeftWidth(width)
        THEN [s EXCEPT !.leftPanelScrollOffset = Max(0, @ + delta)]
        ELSE [s EXCEPT !.detailScrollOffset = Max(0, @ + delta)]

\* a variant of Click with the panels exchanged
ClickSwapped(s, x, width) ==
    [s EXCEPT !.focusedPanel = IF x <= LeftWidth(width) THEN "right" ELSE "left"]

\* the left-button-release branch of the keypress handler
Click(s, x, width) ==
    [s EXCEPT !.focusedPanel = IF x <= LeftWidth(width) THEN "left" ELSE "right"]

\* a mouse sequence arrives on stdin: wheel, left-button release, or neither
Mouse ==
    /\ pc = "dashboard"
    /\ \E b \in MouseButtons, x \in MouseColumns(size[1]), type \in {"M", "m"} :
        IF b = 64 \/ b = 65
        THEN LET s1 == Wheel(state, b, x, size[1])
             IN  \* list mode never clamps: the model stops the growth
                 /\ state.mode = "list" =>
                      /\ s1.leftPanelScrollOffset
                           <= Max(MaxOffset, state.leftPanelScrollOffset)
                      /\ s1.detailScrollOffset
                           <= Max(MaxOffset, state.detailScrollOffset)
                 /\ state' = Render(s1, size)
                 /\ screen' = Shown(s1, size)
        ELSE IF b = 0 /\ type = "m" /\ state.mode = "detail"
        THEN /\ state' = Render(Click(state, x, size[1]), size)
             /\ screen' = Shown(Click(state, x, size[1]), size)
        ELSE \* falls through to handleKeypress with a key that has no name
             UNCHANGED <<state, screen>>
    /\ UNCHANGED <<procVars, size, timerVars, quitVars, nDown, service, promptOnly, clipboard, call>>

\* the part of cleanup() after `await stopAnalysis(...).catch(...)`
CleanupRest(t) == RawModeOff(ExitAlternateScreen(MouseDisable(t)))

\* stopAnalysis settled (its failure is caught): the rest of cleanup()
CleanupFinish ==
    /\ pc = "dashboard"
    /\ cleanups > 0
    /\ ProcessEnds(0, CleanupRest(term))

\* a termination signal: no handler is installed in the interactive command
Signal ==
    /\ pc # "exited"
    /\ ProcessEnds(143, term)

Next ==
    \/ InitialQuit
    \/ InitialRefresh
    \/ StartReview
    \/ SubmitResolved
    \/ SubmitRejected
    \/ InitialPollDone(SmallPool)
    \/ PollFire(MaxInFlight)
    \/ PollCommentsReply(SmallPool)
    \/ PollCommentsFail
    \/ StatusReply(StatusReplies)
    \/ StatusFail
    \/ Tick
    \/ Resize
    \/ KeyPress(Keys)
    \/ Mouse
    \/ CleanupFinish
    \/ Signal

\* the whole program, with the comments of SmallPool
Spec == Init /\ [][Next]_vars

----------------------------------------------------------------------------
(* The dashboard for a user who stays in the session: starts when          *)
(* runReviewSession has created Session State and awaits the initial poll. *)

InitSession ==
    /\ pc = "initialPoll"
    /\ exitCode = -1
    /\ hasChanges = TRUE
    /\ term = Terminal(TRUE, TRUE, FALSE, TRUE)
    /\ size \in Sizes
    /\ state = InitialState
    /\ screen = Blank("loading")
    /\ pollTimer = FALSE
    /\ uiTimer = FALSE
    /\ awaitComments = 0
    /\ awaitStatus = 0
    /\ cleanups = 0
    /\ stopRequests = 0
    /\ quitPressed = FALSE
    /\ nDown = 0
    /\ service = NoService
    /\ promptOnly = NoPrompt
    /\ clipboard = <<>>
    /\ call = NoCall

NavReplies == {"running", "completed"}

\* navigation, with the comments of NavPool
NextNav ==
    \/ InitialPollDone(NavPool)
    \/ PollFire(MaxInFlight)
    \/ PollCommentsReply(NavPool)
    \/ PollCommentsFail
    \/ StatusReply(NavReplies)
    \/ StatusFail
    \/ Tick
    \/ Resize
    \/ KeyPress(StayKeys)
    \/ Mouse

SpecNav == InitSession /\ [][NextNav]_vars

\* the keys of a user who walks the list, opens and leaves the detail view,
\* scrolls the file list and expands and collapses files
FoldKeys ==
    {Key("up"), Key("down"), Key("return"), Key("tab"), Key("escape"),
     [name |-> "down", ctrl |-> TRUE]}

\* expanding and collapsing in both modes, with two files
NextFold ==
    \/ InitialPollDone(SmallPool)
    \/ PollFire(MaxInFlight)
    \/ PollCommentsReply(SmallPool)
    \/ PollCommentsFail
    \/ StatusReply(NavReplies)
    \/ StatusFail
    \/ Tick
    \/ Resize
    \/ KeyPress(FoldKeys)

SpecFold == InitSession /\ [][NextFold]_vars

\* The analysis has left running for good before the first status request
\* and reports one final status: every status reply is that status.
FinalReplies ==
    IF state.status = "running" THEN StatusReplies \ {"running"} ELSE {state.status}

\* the keys of a user who watches the list
WatchKeys == {Key("down"), Key("return")}

NextLive ==
    \/ InitialPollDone(SmallPool)
    \/ PollFire(MaxInFlight)
    \/ PollCommentsReply(SmallPool)
    \/ PollCommentsFail
    \/ StatusReply(FinalReplies)
    \/ StatusFail
    \/ Tick
    \/ KeyPress(WatchKeys)

\* The poll timer fires as long as it is set, the initial poll settles, and
\* of the requests that keep being made some succeed.
SpecLive ==
    /\ InitSession
    /\ [][NextLive]_vars
    /\ WF_vars(InitialPollDone(SmallPool))
    /\ WF_vars(PollFire(MaxInFlight))
    /\ SF_vars(PollCommentsReply(SmallPool))
    /\ SF_vars(StatusReply(FinalReplies))

\* the keys of a user who only expands and collapses the first file
ToggleKeys == {Key("return")}

\* merging, with the comments of CommentPool
NextMerge ==
    \/ InitialPollDone(CommentPool)
    \/ PollFire(MaxInFlight)
    \/ PollCommentsReply(CommentPool)
    \/ PollCommentsFail
    \/ StatusReply(NavReplies)
    \/ StatusFail
    \/ Tick
    \/ Resize
    \/ KeyPress(ToggleKeys)

SpecMerge == InitSession /\ [][NextMerge]_vars

(* The dashboard with a review service whose initial poll-comments request  *)
(* and whose get-status requests all fail.                                 *)

NoComments == {}

NextFail ==
    \/ InitialPollDone(NoComments)
    \/ PollFire(MaxInFlight)
    \/ PollCommentsReply(SmallPool)
    \/ PollCommentsFail
    \/ StatusFail
    \/ Tick
    \/ Resize
    \/ KeyPress(StayKeys)
    \/ Mouse

SpecFail == InitSession /\ [][NextFail]_vars

(* The program with a user who presses keys from the start screen on, the  *)
(* pending requests settling and a pending cleanup finishing.              *)

QuitKeys == {Key("q"), [name |-> "c", ctrl |-> TRUE], Key("down")}

NextQuit ==
    \/ InitialQuit
    \/ InitialRefresh
    \/ StartReview
    \/ StartupKey(QuitKeys)
    \/ SubmitResolved
    \/ SubmitRejected
    \/ InitialPollDone(SmallPool)
    \/ PollFire(MaxInFlight)
    \/ PollCommentsReply(SmallPool)
    \/ PollCommentsFail
    \/ StatusReply(StatusReplies)
    \/ StatusFail
    \/ KeyPress(QuitKeys)
    \/ CleanupFinish

SpecQuit ==
    /\ Init
    /\ [][NextQuit]_vars
    /\ WF_vars(SubmitResolved \/ SubmitRejected)
    /\ WF_vars(InitialPollDone(SmallPool))
    /\ WF_vars(CleanupFinish)

(* The review service, for the specifications that follow what it holds:  *)
(* it publishes comments while the analysis runs, and the analysis ends.   *)

\* the positions of the program at which a review is under way
Reviewing == {"initialPoll", "dashboard", "promptComments", "promptStatus", "promptSleep"}

\* the service publishes one more comment of the pool
Publish(pool) ==
    /\ pc \in Reviewing
    /\ service.status = "running"
    /\ \E c \in pool :
        /\ \A k \in 1..Len(service.comments) : service.comments[k].id # c.id
        /\ service' = [service EXCEPT !.comments = Append(@, c)]
    /\ UNCHANGED <<procVars, size, state, screen, timerVars, quitVars, nDown,
                   promptOnly, clipboard, call>>

\* the analysis ends
ServiceEnds ==
    /\ pc \in Reviewing
    /\ service.status = "running"
    /\ \E final \in StatusReplies \ {"running"} :
        service' = [service EXCEPT !.status = final]
    /\ UNCHANGED <<procVars, size, state, screen, timerVars, quitVars, nDown,
                   promptOnly, clipboard, call>>

(* runPromptOnlyMode: submit, then the loop of pollComments, the forEach    *)
(* over the comments returned, getAnalysisStatus and the 5 s sleep.         *)

\* a variant of ProcessComment without the test of processedCommentIds
ProcessCommentAgain(p, c) ==
    [p EXCEPT !.processedCommentIds = @ \cup {c.id},
              !.parsed = Append(@, c.id),
              !.printed = IF AiPrompt(c) # <<>> THEN Append(@, c.id) ELSE @]

\* one iteration of the forEach: a comment whose id is new is recorded and
\* parsed, and its prompt is printed when it is not empty
ProcessComment(p, c) ==
    IF c.id \in p.processedCommentIds THEN p
    ELSE [p EXCEPT !.processedCommentIds = @ \cup {c.id},
                   !.parsed = Append(@, c.id),
                   !.printed = IF AiPrompt(c) # <<>> THEN Append(@, c.id) ELSE @]

RECURSIVE ProcessComments(_, _)
ProcessComments(p, comments) ==
    IF comments = <<>> THEN p
    ELSE ProcessComments(ProcessComment(p, Head(comments)), Tail(comments))

InitPrompt ==
    /\ pc = "promptSubmit"
    /\ exitCode = -1
    /\ hasChanges = TRUE
    /\ term = OriginalTerminal
    /\ size \in Sizes
    /\ state = InitialState
    /\ screen = Blank("none")
    /\ pollTimer = FALSE
    /\ uiTimer = FALSE
    /\ awaitComments = 0
    /\ awaitStatus = 0
    /\ cleanups = 0
    /\ stopRequests = 0
    /\ quitPressed = FALSE
    /\ nDown = 0
    /\ service = NoService
    /\ promptOnly = NoPrompt
    /\ clipboard = <<>>
    /\ call = NoCall

\* submitReview resolved: the loop starts with a poll-comments request
PromptSubmitResolved ==
    /\ pc = "promptSubmit"
    /\ pc' = "promptComments"
    /\ UNCHANGED <<exitCode, hasChanges, term, size, state, screen, timerVars,
                   quitVars, nDown, service, promptOnly, clipboard, call>>

\* submitReview, pollComments or getAnalysisStatus rejected: the catch
PromptRequestFails ==
    /\ pc \in {"promptSubmit", "promptComments", "promptStatus"}
    /\ ProcessEnds(1, term)

\* pollComments resolved with the comments published so far: the forEach,
\* then the status request
PromptCommentsReply ==
    /\ pc = "promptComments"
    /\ promptOnly' = ProcessComments(promptOnly, service.comments)
    /\ pc' = "promptStatus"
    /\ UNCHANGED <<exitCode, hasChanges, term, size, state, screen, timerVars,
                   quitVars, nDown, service, clipboard, call>>

\* getAnalysisStatus resolved: sleep while running, else leave the loop and
\* exit, with code 1 when the status is failed
PromptStatusReply ==
    /\ pc = "promptStatus"
    /\ promptOnly' = [promptOnly EXCEPT !.status = service.status]
    /\ IF service.status = "running"
       THEN /\ pc' = "promptSleep"
            /\ UNCHANGED <<exitCode, hasChanges, term, size, state, screen,
                           timerVars, quitVars, nDown, service, clipboard, call>>
       ELSE /\ pc' = "exited"
            /\ exitCode' = IF service.status = "failed" THEN 1 ELSE 0
            /\ UNCHANGED <<hasChanges, term, size, state, screen, timerVars,
                           quitVars, nDown, service, clipboard, call>>

\* the 5 s sleep is over: the next iteration
PromptWake ==
    /\ pc = "promptSleep"
    /\ pc' = "promptComments"
    /\ UNCHANGED <<exitCode, hasChanges, term, size, state, screen, timerVars,
                   quitVars, nDown, service, promptOnly, clipboard, call>>

\* SIGINT: cleanup(0), which exits at once while no review was started and
\* else awaits stopAnalysis
PromptSigint ==
    /\ pc \in {"promptSubmit", "promptComments", "promptStatus", "promptSleep"}
    /\ IF pc = "promptSubmit"
       THEN ProcessEnds(0, term)
       ELSE /\ cleanups < MaxCleanups
            /\ cleanups' = cleanups + 1
            /\ stopRequests' = stopRequests + 1
            /\ UNCHANGED <<procVars, size, state, screen, timerVars, quitPressed,
                           nDown, service, promptOnly, clipboard, call>>

\* stopAnalysis settled: the rest of cleanup(0)
PromptCleanupFinish ==
    /\ pc \in {"promptComments", "promptStatus", "promptSleep"}
    /\ cleanups > 0
    /\ ProcessEnds(0, term)

(* The dashboard with a slow review service: one more poll cycle may be in *)
(* flight than in the other specifications.                                *)

NextOverlap ==
    \/ InitialPollDone(SmallPool)
    \/ PollFire(MaxInFlight + 1)
    \/ PollCommentsReply(SmallPool)
    \/ PollCommentsFail
    \/ StatusReply(NavReplies)
    \/ StatusFail
    \/ Tick
    \/ Resize
    \/ KeyPress(StayKeys)
    \/ Mouse

SpecOverlap == InitSession /\ [][NextOverlap]_vars

(* The dashboard with comments that carry their AI-fix prompt in the two    *)
(* forms, and a user who moves the cursor and copies.                      *)

CopyPool ==
    { Comment(7, "src/a.ts", 10, "Leak", <<4>>, <<3>>),
      Inline(Comment(8, "src/a.ts", 20, "Race", <<4>>, <<5>>)),
      Comment(9, "src/b.ts", 10, "Leak", <<4>>, <<>>) }

CopyKeys == {Key("c"), Key("up"), Key("down"), Key("return"), Key("escape")}

NextCopy ==
    \/ InitialPollDone(CopyPool)
    \/ PollFire(MaxInFlight)
    \/ PollCommentsReply(CopyPool)
    \/ PollCommentsFail
    \/ StatusReply(NavReplies)
    \/ StatusFail
    \/ Tick
    \/ Resize
    \/ KeyPress(CopyKeys)

SpecCopy == InitSession /\ [][NextCopy]_vars

(* The dashboard with the comments of NavPool arriving between the key     *)
(* presses of a user who moves the cursor, folds files and opens the       *)
(* detail view.                                                            *)

NextInterleave ==
    \/ InitialPollDone(NavPool)
    \/ PollFire(MaxInFlight)
    \/ PollCommentsReply(NavPool)
    \/ PollCommentsFail
    \/ StatusReply(NavReplies)
    \/ StatusFail
    \/ KeyPress(FoldKeys)

SpecInterleave == InitSession /\ [][NextInterleave]_vars

(* The dashboard in front of the review service: each poll-comments reply  *)
(* carries the comments published so far and each status reply the status *)
(* the analysis has at that moment.                                        *)

\* the initial poll answered with what the service holds, or failed
InitialPollServed ==
    /\ pc = "initialPoll"
    /\ \E batch \in {service.comments, <<>>} :
        /\ state' = Render(AddComments(state, batch), size)
        /\ screen' = Shown(AddComments(state, batch), size)
    /\ pollTimer' = TRUE
    /\ uiTimer' = TRUE
    /\ term' = [term EXCEPT !.raw = TRUE]
    /\ pc' = "dashboard"
    /\ UNCHANGED <<exitCode, hasChanges, size, awaitComments, awaitStatus,
                   quitVars, nDown, service, promptOnly, clipboard, call>>

\* pollComments resolved with what the service holds: merge, render, and ask
\* for the status
PollCommentsServed ==
    /\ pc = "dashboard"
    /\ awaitComments > 0
    /\ IF Len(service.comments) > 0
       THEN /\ state' = Render(AddComments(state, service.comments), size)
            /\ screen' = Shown(AddComments(state, service.comments), size)
       ELSE UNCHANGED <<state, screen>>
    /\ awaitComments' = awaitComments - 1
    /\ awaitStatus' = awaitStatus + 1
    /\ UNCHANGED <<procVars, size, pollTimer, uiTimer, quitVars, nDown, service,
                   promptOnly, clipboard, call>>

NextServed ==
    \/ InitialPollServed
    \/ PollFire(MaxInFlight)
    \/ PollCommentsServed
    \/ PollCommentsFail
    \/ StatusReply({service.status})
    \/ StatusFail
    \/ Publish(NavPool)
    \/ ServiceEnds
    \/ Tick
    \/ KeyPress(WatchKeys)

SpecServed == InitSession /\ [][NextServed]_vars

\* --prompt-only mode, with the comments of CopyPool
NextPrompt ==
    \/ PromptSubmitResolved
    \/ PromptRequestFails
    \/ PromptCommentsReply
    \/ PromptStatusReply
    \/ PromptWake
    \/ PromptSigint
    \/ PromptCleanupFinish
    \/ Publish(CopyPool)
    \/ ServiceEnds

SpecPrompt == InitPrompt /\ [][NextPrompt]_vars

(* The same dashboard with the comments of LongPool, whose detail view     *)
(* needs scrolling.                                                        *)

NextScroll ==
    \/ InitialPollDone(LongPool)
    \/ PollFire(MaxInFlight)
    \/ PollCommentsReply(LongPool)
    \/ PollCommentsFail
    \/ StatusReply(NavReplies)
    \/ StatusFail
    \/ Tick
    \/ Resize
    \/ KeyPress(StayKeys)
    \/ Mouse

SpecScroll == InitSession /\ [][NextScroll]_vars

----------------------------------------------------------------------------
(* The walk down the list: any list of file groups with any expanded       *)
(* flags, the cursor on the first file header, then down presses only.     *)

Paths == <<"src/a.ts", "src/b.ts", "src/c.ts", "src/d.ts", "src/e.ts">>

\* the group of the i-th path holding n comments
GroupOf(i, n, expanded) ==
    FileGroup(Paths[i],
              [j \in 1..n |-> Comment(10 * i + j, Paths[i], j, "Leak", <<4>>, <<>>)],
              expanded)

FileLists ==
    UNION { { [i \in 1..n |-> GroupOf(i, shape[i][1], shape[i][2])] :
                shape \in [1..n -> (1..MaxPerFile) \X BOOLEAN] } :
            n \in 1..MaxFiles }

RECURSIVE CountComments(_)
CountComments(files) ==
    IF files = <<>> THEN 0
    ELSE Len(Head(files).comments) + CountComments(Tail(files))

InitDown ==
    /\ pc = "dashboard"
    /\ exitCode = -1
    /\ hasChanges = TRUE
    /\ term = Terminal(TRUE, TRUE, FALSE, TRUE)
    /\ size \in Sizes
    /\ \E files \in FileLists, mode \in {"list", "detail"} :
        state = [InitialState EXCEPT !.files = files, !.mode = mode,
                                     !.totalComments = CountComments(files)]
    /\ screen = Shown(state, size)
    /\ pollTimer = TRUE
    /\ uiTimer = TRUE
    /\ awaitComments = 0
    /\ awaitStatus = 0
    /\ cleanups = 0
    /\ stopRequests = 0
    /\ quitPressed = FALSE
    /\ nDown = 0
    /\ service = NoService
    /\ promptOnly = NoPrompt
    /\ clipboard = <<>>
    /\ call = NoCall

DownKeys == {Key("down"), Key("j")}

DownPress ==
    /\ nDown < MaxDowns
    /\ KeyStep(DownKeys)
    /\ nDown' = nDown + 1
    /\ UNCHANGED <<service, promptOnly>>

NextDown == DownPress

SpecDown == InitDown /\ [][NextDown]_vars

----------------------------------------------------------------------------
(* truncate called on its own: any string of up to MaxTokens visible       *)
(* characters and complete escape sequences, any width up to MaxWidth.     *)

Tokens == {<<"a">>, OpenEscape, CloseEscape}

RECURSIVE Concat(_)
Concat(seqs) == IF seqs = <<>> THEN <<>> ELSE Head(seqs) \o Concat(Tail(seqs))

Strings == { Concat(ts) : ts \in UNION { [1..n -> Tokens] : n \in 0..MaxTokens } }

InitTruncate ==
    /\ pc = "utility"
    /\ exitCode = -1
    /\ hasChanges = FALSE
    /\ term = OriginalTerminal
    /\ size \in Sizes
    /\ state = InitialState
    /\ screen = Blank("none")
    /\ pollTimer = FALSE
    /\ uiTimer = FALSE
    /\ awaitComments = 0
    /\ awaitStatus = 0
    /\ cleanups = 0
    /\ stopRequests = 0
    /\ quitPressed = FALSE
    /\ nDown = 0
    /\ service = NoService
    /\ promptOnly = NoPrompt
    /\ clipboard = <<>>
    /\ \E str \in Strings, width \in 0..MaxWidth :
        call = [fn |-> "truncate", str |-> str, width |-> width,
                out |-> <<>>, done |-> FALSE]

TruncateCall ==
    /\ call.fn = "truncate"
    /\ ~call.done
    /\ call' = [call EXCEPT !.out = Truncate(call.str, call.width), !.done = TRUE]
    /\ UNCHANGED <<procVars, size, state, screen, timerVars, quitVars, nDown, service, promptOnly,
                   clipboard>>

NextTruncate == TruncateCall

SpecTruncate == InitTruncate /\ [][NextTruncate]_vars

----------------------------------------------------------------------------
(* wordWrap called on its own: any text of up to MaxText visible characters *)
(* and spaces, any width budget up to MaxWidth.                             *)

Texts == UNION { [1..n -> {"a", " "}] : n \in 0..MaxText }

InitWrap ==
    /\ pc = "utility"
    /\ exitCode = -1
    /\ hasChanges = FALSE
    /\ term = OriginalTerminal
    /\ size \in Sizes
    /\ state = InitialState
    /\ screen = Blank("none")
    /\ pollTimer = FALSE
    /\ uiTimer = FALSE
    /\ awaitComments = 0
    /\ awaitStatus = 0
    /\ cleanups = 0
    /\ stopRequests = 0
    /\ quitPressed = FALSE
    /\ nDown = 0
    /\ service = NoService
    /\ promptOnly = NoPrompt
    /\ clipboard = <<>>
    /\ \E text \in Texts, width \in 0..MaxWidth :
        call = [fn |-> "wordWrap", str |-> text, width |-> width,
                out |-> <<>>, done |-> FALSE]

WordWrapCall ==
    /\ call.fn = "wordWrap"
    /\ ~call.done
    /\ call' = [call EXCEPT !.out = WordWrapText(call.str, call.width), !.done = TRUE]
    /\ UNCHANGED <<procVars, size, state, screen, timerVars, quitVars, nDown, service, promptOnly,
                   clipboard>>

NextWrap == WordWrapCall

SpecWrap == InitWrap /\ [][NextWrap]_vars

----------------------------------------------------------------------------
(* parseCommentMetadata called on its own: any content of up to MaxLines    *)
(* lines, each a metadata line, two metadata markers on one line, a marker  *)
(* without a value, plain text, or empty.                                   *)

LinePool ==
    { <<>>, <<"sev", "X">>, <<"title", "T">>,
      <<"title", "T", "sev", "X">>, <<"sev", "X", "title", "T">>,
      <<"T">>, <<"long">>, <<"title">>, <<"lstart", "7">>, <<"lend", "9">> }

\* lines.join('\n')
RECURSIVE JoinLines(_)
JoinLines(lines) ==
    IF lines = <<>> THEN <<>>
    ELSE IF Len(lines) = 1 THEN lines[1]
    ELSE Head(lines) \o <<"nl">> \o JoinLines(Tail(lines))

Contents == { JoinLines(ls) : ls \in UNION { [1..n -> LinePool] : n \in 0..MaxLines } }

InitParse ==
    /\ pc = "utility"
    /\ exitCode = -1
    /\ hasChanges = FALSE
    /\ term = OriginalTerminal
    /\ size \in Sizes
    /\ state = InitialState
    /\ screen = Blank("none")
    /\ pollTimer = FALSE
    /\ uiTimer = FALSE
    /\ awaitComments = 0
    /\ awaitStatus = 0
    /\ cleanups = 0
    /\ stopRequests = 0
    /\ quitPressed = FALSE
    /\ nDown = 0
    /\ service = NoService
    /\ promptOnly = NoPrompt
    /\ clipboard = <<>>
    /\ \E content \in Contents :
        call = [fn |-> "parseCommentMetadata", str |-> content, width |-> 0,
                out |-> <<>>, done |-> FALSE]

ParseCall ==
    /\ call.fn = "parseCommentMetadata"
    /\ ~call.done
    /\ call' = [call EXCEPT !.out = ParseCommentMetadata(call.str), !.done = TRUE]
    /\ UNCHANGED <<procVars, size, state, screen, timerVars, quitVars, nDown, service, promptOnly,
                   clipboard>>

NextParse == ParseCall

\* parseCommentMetadata called on contents made of up to MaxLines parts:
\* plain text, a metadata line, a fenced block, a "Suggested Fix" section
\* (with a fenced body, with a one-line body, empty) and a "Prompt for AI"
\* section with a fenced body.  A part records whether it is a "Suggested
\* Fix" section and the text that section holds.
PartPool ==
    { [text |-> <<"X">>, isFix |-> FALSE, body |-> <<>>],
      [text |-> <<"sev", "X">>, isFix |-> FALSE, body |-> <<>>],
      [text |-> <<"fence", "nl", "T", "nl", "fence">>, isFix |-> FALSE, body |-> <<>>],
      [text |-> <<"details", "nl", "summary", "fix", "/summary", "nl", "nl",
                  "fence", "nl", "X", "nl", "fence", "nl", "nl", "/details">>,
       isFix |-> TRUE, body |-> <<"fence", "nl", "X", "nl", "fence">>],
      [text |-> <<"details", "summary", "fix", "/summary", "T", "/details">>,
       isFix |-> TRUE, body |-> <<"T">>],
      [text |-> <<"details", "summary", "fix", "/summary", "nl", "/details">>,
       isFix |-> TRUE, body |-> <<>>],
      [text |-> <<"details", "nl", "summary", "prompt", "/summary", "nl",
                  "fence", "nl", "T", "nl", "fence", "nl", "/details">>,
       isFix |-> FALSE, body |-> <<>>] }

PartLists == UNION { [1..n -> PartPool] : n \in 0..MaxLines }

InitFix ==
    /\ pc = "utility"
    /\ exitCode = -1
    /\ hasChanges = FALSE
    /\ term = OriginalTerminal
    /\ size \in Sizes
    /\ state = InitialState
    /\ screen = Blank("none")
    /\ pollTimer = FALSE
    /\ uiTimer = FALSE
    /\ awaitComments = 0
    /\ awaitStatus = 0
    /\ cleanups = 0
    /\ stopRequests = 0
    /\ quitPressed = FALSE
    /\ nDown = 0
    /\ service = NoService
    /\ promptOnly = NoPrompt
    /\ clipboard = <<>>
    /\ \E parts \in PartLists :
        call = [fn |-> "parseCommentMetadata",
                str |-> JoinLines([k \in 1..Len(parts) |-> parts[k].text]),
                parts |-> parts, width |-> 0, out |-> <<>>, done |-> FALSE]

SpecFix == InitFix /\ [][NextParse]_vars

SpecParse == InitParse /\ [][NextParse]_vars

----------------------------------------------------------------------------
(* Properties *)

ViewportHeight == ContentHeight(size[2])

\* two comments of one group with equal (line_start, title)
DuplicateIn(comments) ==
    \E i, j \in 1..Len(comments) :
        /\ i # j
        /\ comments[i].line_start = comments[j].line_start
        /\ comments[i].title = comments[j].title

\* the comment c is held: its group has a comment with c's (line_start, title)
Held(s, c) ==
    \E g \in 1..Len(s.files) :
        /\ s.files[g].filePath = c.file_path
        /\ \E i \in 1..Len(s.files[g].comments) :
            /\ s.files[g].comments[i].line_start = c.line_start
            /\ s.files[g].comments[i].title = c.title

\* C1 (SpecMerge): after any sequence of merges no file group holds two
\* comments with equal (line_start, title), and merging a comment that is
\* already held leaves totalComments and every group's comment list unchanged.
C1_MergeNeverDuplicates ==
    /\ \A g \in 1..Len(state.files) : ~DuplicateIn(state.files[g].comments)
    /\ \A c \in CommentPool :
        Held(state, c) =>
            LET merged == AddComments(state, <<c>>)
            IN  /\ merged.totalComments = state.totalComments
                /\ Len(merged.files) = Len(state.files)
                /\ \A g \in 1..Len(state.files) :
                    merged.files[g].comments = state.files[g].comments

\* C1 witness: every key of the pool has been merged, the first group holds
\* comment 2 and not comment 1, which has the same key
C1_Witness ==
    /\ pc = "dashboard"
    /\ state.totalComments = 3
    /\ Len(state.files) = 2
    /\ state.files[1].filePath = "src/a.ts"
    /\ \E i \in 1..Len(state.files[1].comments) : state.files[1].comments[i].id = 2
    /\ \A i \in 1..Len(state.files[1].comments) : state.files[1].comments[i].id # 1

\* C2 (SpecNav): in every reachable state the compound cursor is valid: with
\* files, selectedFileIndex is in [0, files.length) and selectedCommentIndex is
\* -1 or in [0, comments.length) of the selected file; without files they are
\* 0 and -1.
C2_CursorValid ==
    IF Len(state.files) > 0
    THEN /\ state.selectedFileIndex >= 0
         /\ state.selectedFileIndex < Len(state.files)
         /\ \/ state.selectedCommentIndex = -1
            \/ /\ state.selectedCommentIndex >= 0
               /\ state.selectedCommentIndex
                    < Len(state.files[state.selectedFileIndex + 1].comments)
    ELSE /\ state.selectedFileIndex = 0
         /\ state.selectedCommentIndex = -1

\* C2 witness: two files, the cursor on the last comment of the first one, in
\* detail mode with the file list focused
C2_Witness ==
    /\ pc = "dashboard"
    /\ Len(state.files) = 2
    /\ state.mode = "detail"
    /\ state.focusedPanel = "left"
    /\ state.selectedFileIndex = 0
    /\ Len(state.files[1].comments) = 2
    /\ state.selectedCommentIndex = 1

\* the items of the file list in list order: <<file, -1>> for a file header,
\* <<file, comment>> for each comment of an expanded file (0-based)
RECURSIVE FlatFrom(_, _)
FlatFrom(files, i) ==
    IF i > Len(files) THEN <<>>
    ELSE <<<<i - 1, -1>>>>
         \o (IF files[i].expanded
             THEN [j \in 1..Len(files[i].comments) |-> <<i - 1, j - 1>>]
             ELSE <<>>)
         \o FlatFrom(files, i + 1)

Flat(files) == FlatFrom(files, 1)

\* C3 (SpecDown): starting on the first file header, after n down presses the
\* cursor is on the (n+1)-th item of the list of file headers and comments of
\* expanded files, and on the last item once n+1 exceeds the list: every item is
\* visited once, in order, no comment of a collapsed file is visited, and the
\* cursor stays on the last item.
C3_DownWalk ==
    LET flat == Flat(state.files)
    IN  <<state.selectedFileIndex, state.selectedCommentIndex>>
            = flat[Min(nDown + 1, Len(flat))]

\* C3 witness: three files, one collapsed and one expanded with two comments,
\* and more down presses than the list has items
C3_Witness ==
    /\ Len(state.files) = 3
    /\ \E i \in 1..3 : ~state.files[i].expanded /\ Len(state.files[i].comments) = 2
    /\ \E i \in 1..3 : state.files[i].expanded /\ Len(state.files[i].comments) = 2
    /\ nDown > Len(Flat(state.files))
    /\ state.selectedFileIndex = 2

\* C4 (SpecScroll): after every split-layout render each panel's stored
\* offset is at least 0 and at most max(0, totalLines - viewportHeight), with
\* the totalLines that render computed for the panel.
C4_SplitRenderClamps ==
    screen.view = "split" =>
        /\ state.leftPanelScrollOffset >= 0
        /\ state.leftPanelScrollOffset <= Max(0, screen.leftTotal - ViewportHeight)
        /\ state.detailScrollOffset >= 0
        /\ state.detailScrollOffset <= Max(0, screen.rightTotal - ViewportHeight)

\* C4 witness: a split layout where both panels are scrolled to their end
C4_Witness ==
    /\ screen.view = "split"
    /\ state.leftPanelScrollOffset > 0
    /\ state.leftPanelScrollOffset = screen.leftTotal - ViewportHeight
    /\ state.detailScrollOffset > 0
    /\ state.detailScrollOffset = screen.rightTotal - ViewportHeight

PageDownKeys == {Key("pagedown"), [name |-> "d", ctrl |-> TRUE]}

\* C5 (SpecScroll): a step of the dashboard in detail mode that is a press of
\* PageDown or Ctrl-D with its render leaves the focused panel's offset at
\* min(o + 10, max(0, totalLines - viewportHeight)), o being the offset before
\* the press and totalLines the count of the triggered render.
C5_PageDown ==
    [][\A key \in PageDownKeys :
        ( /\ pc = "dashboard"
          /\ state.mode = "detail"
          /\ size' = size
          /\ state' = Render(HandleKeypress(state, key).state, size)
          /\ screen' = Shown(HandleKeypress(state, key).state, size) )
        => IF state.focusedPanel = "right"
           THEN state'.detailScrollOffset
                  = Min(state.detailScrollOffset + 10,
                        Max(0, screen'.rightTotal - ViewportHeight))
           ELSE state'.leftPanelScrollOffset
                  = Min(state.leftPanelScrollOffset + 10,
                        Max(0, screen'.leftTotal - ViewportHeight))]_vars

\* C5 witness: the detail panel focused and scrolled by one page, with more
\* content below
C5_Witness ==
    /\ pc = "dashboard"
    /\ state.mode = "detail"
    /\ state.focusedPanel = "right"
    /\ state.detailScrollOffset = 10
    /\ screen.rightTotal - ViewportHeight > 10

\* C6 (Spec): whenever the event loop is idle both offsets are within
\* [0, max(0, totalRenderedLines - viewportHeight)] of their panel, in list
\* mode (the file list, shown in rows - 4 lines) and in detail mode.
C6_OffsetsAlwaysClamped ==
    pc = "dashboard" =>
        IF state.mode = "detail"
        THEN /\ state.leftPanelScrollOffset >= 0
             /\ state.leftPanelScrollOffset
                  <= Max(0, screen.leftTotal - ViewportHeight)
             /\ state.detailScrollOffset >= 0
             /\ state.detailScrollOffset
                  <= Max(0, screen.rightTotal - ViewportHeight)
        ELSE /\ state.leftPanelScrollOffset >= 0
             /\ state.leftPanelScrollOffset
                  <= Max(0, screen.leftTotal - (size[2] - 4))

\* C7 (Spec), as stated: once the status is not running, the poll timer and
\* the UI tick timer are stopped.
C7_TimersStopped ==
    (pc = "dashboard" /\ state.status # "running") => (~pollTimer /\ ~uiTimer)

\* C7 (Spec), amended: once the status is not running the poll timer is
\* stopped and stays stopped, no poll-comments request is issued, the status
\* never returns to running, spinnerFrame never changes and the screen shows
\* the static indicator; the UI tick timer stays active.
C7_PollStopsSpinnerFreezes ==
    [][ /\ (pc' = "dashboard" /\ state'.status # "running")
            => (~pollTimer' /\ ~screen'.spin)
        /\ (pc = "dashboard" /\ state.status # "running" /\ pc' = "dashboard")
            => /\ state'.status # "running"
               /\ state'.spinnerFrame = state.spinnerFrame
               /\ awaitComments' <= awaitComments
               /\ uiTimer' ]_vars

\* C7 witness: the status is completed after the spinner moved, the poll timer
\* is stopped and the UI tick timer still active
C7_Witness ==
    /\ pc = "dashboard"
    /\ state.status = "completed"
    /\ state.spinnerFrame > 0
    /\ ~pollTimer
    /\ uiTimer
    /\ ~screen.spin

\* C8 (Spec): on quit both timers are stopped before the review service is
\* asked to cancel the analysis: while the dashboard is alive and a cancel
\* request has been issued, neither timer is active.
C8_TimersStopBeforeCancel ==
    (pc = "dashboard" /\ stopRequests > 0) => (~pollTimer /\ ~uiTimer)

\* C9 (Spec): from the accepted quit key until the process exits no step
\* changes Session State, writes a render, starts a poll cycle or issues
\* another cancel request.
C9_QuietAfterQuit ==
    [][ (pc = "dashboard" /\ cleanups > 0 /\ pc' = "dashboard")
        => /\ state' = state
           /\ screen' = screen
           /\ awaitComments' <= awaitComments
           /\ awaitStatus' <= awaitStatus
           /\ stopRequests' = stopRequests ]_vars

\* C10 (Spec): when the process has ended the terminal is in its original
\* mode: alternate screen left, cursor visible, mouse reporting off, raw input
\* mode off.
C10_TerminalRestored ==
    pc = "exited" => term = OriginalTerminal

\* C11 (Spec): while the submit-review request is outstanding no timer is
\* active, and when it is rejected the process ends with a non-zero exit code,
\* no Session State created, no timer started and the terminal restored.
C11_SubmitRejectedAborts ==
    [][ /\ pc = "submitting" => (~pollTimer /\ ~uiTimer /\ state = InitialState)
        /\ (pc = "submitting" /\ pc' = "exited" /\ exitCode' # 143)
            => /\ exitCode' > 0
               /\ ~pollTimer' /\ ~uiTimer'
               /\ term' = OriginalTerminal ]_vars

\* C12 (SpecFail): a failed initial poll leaves Session State as created and
\* the session goes on to the dashboard with both timers started; a failed
\* poll-comments or get-status request of a scheduled poll leaves Session
\* State and the screen unchanged, the session alive and both timers active.
C12_FailureSwallowed ==
    [][ /\ (pc = "initialPoll" /\ pc' = "dashboard")
            => (state' = state /\ pollTimer' /\ uiTimer')
        /\ ( /\ pc = "dashboard"
             /\ \/ awaitStatus' < awaitStatus
                \/ (awaitComments' < awaitComments /\ awaitStatus' = awaitStatus) )
            => /\ pc' = "dashboard"
               /\ state' = state
               /\ screen' = screen
               /\ pollTimer /\ pollTimer'
               /\ uiTimer /\ uiTimer' ]_vars

\* C12 witness: comments were merged by a scheduled poll whose get-status
\* request then failed; no request is outstanding and the poll timer is active
C12_Witness ==
    /\ pc = "dashboard"
    /\ Len(state.files) = 2
    /\ state.mode = "detail"
    /\ awaitComments = 0
    /\ awaitStatus = 0
    /\ pollTimer
    /\ uiTimer

\* C13 (Spec): in every reachable state the status of Session State is one of
\* running, completed, failed.
C13_StatusOneOfThree ==
    state.status \in {"running", "completed", "failed"}

\* C14 (SpecOverlap): at most one poll cycle is in flight at any time.
C14_OnePollCycleInFlight ==
    awaitComments + awaitStatus <= 1

\* C15 (Spec): Tab in detail mode toggles focusedPanel and changes nothing
\* else; Tab in list mode toggles the expanded flag of the selected file.
C15_TabByMode ==
    pc = "dashboard" =>
        LET after == HandleKeypress(state, Key("tab")).state
        IN  IF state.mode = "detail"
            THEN after = [state EXCEPT !.focusedPanel =
                                         IF @ = "left" THEN "right" ELSE "left"]
            ELSE Len(state.files) > 0 =>
                   after.files[state.selectedFileIndex + 1].expanded
                     = ~state.files[state.selectedFileIndex + 1].expanded

\* C16 (SpecCopy): the copy key never changes Session State; with a comment
\* selected whose extracted AI-fix prompt is non-empty the text handed to the
\* clipboard is that prompt, whichever form the content carries it in; with a
\* file header selected or an empty prompt nothing is handed over.
C16_CopyEmitsExtractedPrompt ==
    pc = "dashboard" =>
        /\ HandleKeypress(state, Key("c")).action = "copy"
        /\ HandleKeypress(state, Key("c")).state = state
        /\ Copied(state)
             = IF Len(state.files) > 0 /\ state.selectedCommentIndex >= 0
               THEN AiPrompt(state.files[state.selectedFileIndex + 1]
                                 .comments[state.selectedCommentIndex + 1])
               ELSE <<>>

IsPrefix(a, b) == Len(a) <= Len(b) /\ \A i \in 1..Len(a) : a[i] = b[i]

\* C17 (SpecNav): across every step the file list before the step is a
\* prefix of the file list after it (same paths, same order) and each group's
\* comment list before the step is a prefix of its comment list after it.
C17_AppendOnly ==
    [][ /\ Len(state.files) <= Len(state'.files)
        /\ \A g \in 1..Len(state.files) :
            /\ state'.files[g].filePath = state.files[g].filePath
            /\ IsPrefix(state.files[g].comments, state'.files[g].comments) ]_vars

\* C17 witness: the second file seen holds two comments that arrived in the
\* order 3, 1, after the first file's comment
C17_Witness ==
    /\ pc = "dashboard"
    /\ Len(state.files) = 2
    /\ state.files[1].filePath = "src/b.ts"
    /\ Len(state.files[2].comments) = 2
    /\ state.files[2].comments[1].id = 3
    /\ state.files[2].comments[2].id = 1

\* C18 (SpecMerge): in every reachable state no two file groups have the same
\* file path.
C18_PathsUnique ==
    \A i, j \in 1..Len(state.files) :
        i # j => state.files[i].filePath # state.files[j].filePath

\* C18 witness: two groups, the first seen of src/b.ts, and comments of three
\* keys merged, two of them into the existing group of src/a.ts
C18_Witness ==
    /\ pc = "dashboard"
    /\ Len(state.files) = 2
    /\ state.files[1].filePath = "src/b.ts"
    /\ state.files[2].filePath = "src/a.ts"
    /\ state.totalComments = 3
    /\ ~state.files[1].expanded

\* Session State without its two scroll offsets
WithoutOffsets(s) ==
    [s EXCEPT !.leftPanelScrollOffset = 0, !.detailScrollOffset = 0]

\* C19 (SpecScroll), as stated: a resize leaves every field of Session State
\* unchanged.
C19_ResizeKeepsState ==
    [][(pc = "dashboard" /\ size' # size) => state' = state]_vars

\* C19 (SpecScroll), amended: a resize leaves every field of Session State
\* but the two scroll offsets unchanged; in list mode the offsets are unchanged
\* too; in detail mode each offset becomes the smaller of its old value and
\* max(0, totalLines - viewportHeight) of its panel at the new size.
C19_ResizeOnlyClamps ==
    [][(pc = "dashboard" /\ size' # size) =>
        /\ WithoutOffsets(state') = WithoutOffsets(state)
        /\ state.mode = "list" => state' = state
        /\ state.mode = "detail" =>
            /\ state'.leftPanelScrollOffset
                 = Min(state.leftPanelScrollOffset,
                       Max(0, screen'.leftTotal - ContentHeight(size'[2])))
            /\ state'.detailScrollOffset
                 = Min(state.detailScrollOffset,
                       Max(0, screen'.rightTotal - ContentHeight(size'[2]))) ]_vars

\* C19 witness: detail mode at the larger size, the file list focused and shown
\* from its top, the detail panel at the end of its content
C19_Witness ==
    /\ pc = "dashboard"
    /\ state.mode = "detail"
    /\ state.focusedPanel = "left"
    /\ size = <<40, 9>>
    /\ state.leftPanelScrollOffset = 0
    /\ state.detailScrollOffset > 0
    /\ state.detailScrollOffset = screen.rightTotal - ViewportHeight

\* every "E" of the string starts a complete escape sequence
RECURSIVE EscapesCompleteFrom(_, _)
EscapesCompleteFrom(str, i) ==
    IF i > Len(str) THEN TRUE
    ELSE IF str[i] = "E"
    THEN EscapeEnd(str, i) > 0 /\ EscapesCompleteFrom(str, EscapeEnd(str, i) + 1)
    ELSE EscapesCompleteFrom(str, i + 1)

\* a style is open after the characters from i on, given whether one is open
\* before them
RECURSIVE StyleOpenFrom(_, _, _)
StyleOpenFrom(str, i, open) ==
    IF i > Len(str) THEN open
    ELSE IF EscapeEnd(str, i) > 0
    THEN StyleOpenFrom(str, EscapeEnd(str, i) + 1, str[i + 2] = "1")
    ELSE StyleOpenFrom(str, i + 1, open)

\* C20 (SpecTruncate): the string truncate returns for width W has a visible
\* length of at most W and no partial escape sequence, and when it was cut no
\* style is left open at its end.
C20_TruncateFits ==
    (call.fn = "truncate" /\ call.done) =>
        /\ Len(StripAnsi(call.out)) <= call.width
        /\ EscapesCompleteFrom(call.out, 1)
        /\ call.out # call.str => ~StyleOpenFrom(call.out, 1, FALSE)

\* C21 (SpecWrap): no line wordWrap returns is longer than the width budget,
\* and a text that is one token longer than the budget gives exactly one line.
C21_WrapFits ==
    (call.fn = "wordWrap" /\ call.done) =>
        /\ \A k \in 1..Len(call.out) : Len(StripAnsi(call.out[k])) <= call.width
        /\ (Split(call.str) = <<call.str>> /\ Len(call.str) > call.width) =>
               Len(call.out) = 1

\* the positions of a token in a content
Positions(content, t) == { i \in 1..Len(content) : content[i] = t }

\* the content holds one '**Severity**: X' marker and one '**Title**: T' marker
HoldsBothMarkers(content) ==
    /\ Cardinality(Positions(content, "sev")) = 1
    /\ Cardinality(Positions(content, "title")) = 1
    /\ \A i \in Positions(content, "sev") : i < Len(content) /\ content[i + 1] = "X"
    /\ \A i \in Positions(content, "title") : i < Len(content) /\ content[i + 1] = "T"

HoldsNoMarker(content) == \A i \in 1..Len(content) : content[i] \notin Markers

\* content without markers: the defaults and the derived title
ParsedDefaults ==
    (call.fn = "parseCommentMetadata" /\ call.done /\ HoldsNoMarker(call.str)) =>
        /\ call.out.severity = "Medium"
        /\ call.out.lineStart = 0
        /\ call.out.lineEnd = 0
        /\ call.out.description = <<>> => call.out.title = IssueIdentified
        /\ call.out.description # <<>> =>
            LET first == SubSeq(call.out.description, 1,
                                RestOfLine(call.out.description, 1) - 1)
            IN  /\ call.out.title.text = first
                /\ call.out.title.len = Min(LineLen(first), TitleMax)
                /\ call.out.title.ellipsis = (LineLen(first) > TitleMax)

\* C22 as stated (SpecParse): a content with a severity marker X and a title
\* marker T yields severity X and title T wherever the markers stand; a content
\* without markers yields the defaults and the derived title.
C22_FieldsIndependent ==
    /\ (call.fn = "parseCommentMetadata" /\ call.done /\ HoldsBothMarkers(call.str)) =>
        /\ call.out.severity = "X"
        /\ call.out.title.text = <<"T">>
    /\ ParsedDefaults

\* C22 amended (SpecParse): the severity is X wherever the markers stand and
\* the title is the text from T to the end of T's line, so it is T exactly
\* when T ends its line; a content without markers yields the defaults and
\* the derived title.
C22_TitleIsRestOfLine ==
    /\ (call.fn = "parseCommentMetadata" /\ call.done /\ HoldsBothMarkers(call.str)) =>
        /\ call.out.severity = "X"
        /\ \A i \in Positions(call.str, "title") :
            /\ call.out.title.text = SubSeq(call.str, i + 1, RestOfLine(call.str, i) - 1)
            /\ (call.out.title.text = <<"T">>) =
                   (i + 2 > Len(call.str) \/ call.str[i + 2] = "nl")
    /\ ParsedDefaults

\* C22 witness: the title marker stands before the severity marker on one line,
\* after a line of plain text
C22_Witness ==
    /\ call.fn = "parseCommentMetadata"
    /\ call.done
    /\ call.str = <<"long", "nl", "title", "T", "sev", "X">>
    /\ call.out.severity = "X"
    /\ call.out.title.text = <<"T", "sev", "X">>

UpKeys == {Key("up"), Key("k")}

\* the state a key press leaves behind: handleKeypress and the render it asks for
AfterKey(s, key, sz) ==
    IF HandleKeypress(s, key).action = "render"
    THEN Render(HandleKeypress(s, key).state, sz)
    ELSE HandleKeypress(s, key).state

OnFirstItem(s) == s.selectedFileIndex = 0 /\ s.selectedCommentIndex = -1

OnLastItem(s) ==
    Flat(s.files)[Len(Flat(s.files))] = <<s.selectedFileIndex, s.selectedCommentIndex>>

\* C23 (SpecScroll): with the file list focused, up on the first item and down
\* on the last item leave every field of Session State as it was.
C23_EdgePressNoOp ==
    (pc = "dashboard" /\ LeftFocus(state) /\ Len(state.files) > 0) =>
        /\ OnFirstItem(state) =>
             \A key \in UpKeys : AfterKey(state, key, size) = state
        /\ OnLastItem(state) =>
             \A key \in DownKeys : AfterKey(state, key, size) = state

SameCursor(s, t) ==
    /\ s.selectedFileIndex = t.selectedFileIndex
    /\ s.selectedCommentIndex = t.selectedCommentIndex

\* C24 as stated (SpecScroll): after an up or down press that moves the cursor,
\* in list mode as well as in detail mode, detailScrollOffset is 0.
C24_MoveResetsDetailScroll ==
    (pc = "dashboard" /\ LeftFocus(state)) =>
        \A key \in UpKeys \cup DownKeys :
            ~SameCursor(AfterKey(state, key, size), state) =>
                AfterKey(state, key, size).detailScrollOffset = 0

\* C24 amended (SpecScroll): after an up or down press that moves the cursor,
\* detailScrollOffset is 0 in detail mode and as it was in list mode.
C24_MoveResetsInDetailMode ==
    (pc = "dashboard" /\ LeftFocus(state)) =>
        \A key \in UpKeys \cup DownKeys :
            ~SameCursor(AfterKey(state, key, size), state) =>
                AfterKey(state, key, size).detailScrollOffset
                    = IF state.mode = "detail" THEN 0 ELSE state.detailScrollOffset

\* C24 witness: the cursor has been moved to the second comment in list mode
\* while the detail panel's offset is not 0
C24_Witness ==
    /\ pc = "dashboard"
    /\ state.mode = "list"
    /\ state.selectedCommentIndex = 1
    /\ state.detailScrollOffset > 0

EnterKeys == {Key("return"), Key("right")}

\* C25 (SpecScroll): the mode goes from list to detail only by Enter or right in
\* list mode with a comment selected; the step sets focusedPanel to right and
\* both offsets to 0 and keeps everything else; Enter or right on a file header
\* in list mode keeps the mode.
C25_EnterDetail ==
    [][ /\ (pc' = "dashboard" /\ state.mode = "list" /\ state'.mode = "detail") =>
            /\ pc = "dashboard"
            /\ state.selectedCommentIndex >= 0
            /\ \E key \in EnterKeys : state' = AfterKey(state, key, size)
            /\ state' = [state EXCEPT !.mode = "detail", !.focusedPanel = "right",
                                      !.detailScrollOffset = 0,
                                      !.leftPanelScrollOffset = 0]
        /\ (pc = "dashboard" /\ state.mode = "list"
              /\ state.selectedCommentIndex = -1) =>
            \A key \in EnterKeys : AfterKey(state, key, size).mode = "list"
      ]_vars

\* C25 witness: the detail view as the step leaves it: right panel focused,
\* both offsets 0, a comment selected
C25_Witness ==
    /\ pc = "dashboard"
    /\ state.mode = "detail"
    /\ state.focusedPanel = "right"
    /\ state.selectedCommentIndex >= 0
    /\ state.detailScrollOffset = 0
    /\ state.leftPanelScrollOffset = 0

\* Session State with the expanded flag of the selected file flipped
Flipped(s) == [s EXCEPT !.files[s.selectedFileIndex + 1].expanded = ~@]

\* C26 as stated (SpecFold): Enter on a file header with the left panel focused
\* flips the selected file's expanded flag and changes nothing else, with the
\* right panel focused it changes nothing, and two presses restore the state.
C26_ToggleChangesOnlyFlag ==
    (pc = "dashboard" /\ HasFile(state) /\ state.selectedCommentIndex = -1) =>
        LET after == AfterKey(state, Key("return"), size)
        IN  IF LeftFocus(state)
            THEN /\ after = Flipped(state)
                 /\ AfterKey(after, Key("return"), size) = state
            ELSE after = state

\* C26 amended (SpecFold): as stated, except that in detail mode the render
\* after the press clamps leftPanelScrollOffset to the list as it is then, so
\* two presses restore every field but, possibly, that offset.
C26_ToggleThenClamp ==
    (pc = "dashboard" /\ HasFile(state) /\ state.selectedCommentIndex = -1) =>
        LET after == AfterKey(state, Key("return"), size)
            twice == AfterKey(after, Key("return"), size)
        IN  IF LeftFocus(state)
            THEN /\ WithoutOffsets(after) = WithoutOffsets(Flipped(state))
                 /\ after.detailScrollOffset = state.detailScrollOffset
                 /\ after.leftPanelScrollOffset =
                      IF state.mode = "list" THEN state.leftPanelScrollOffset
                      ELSE Min(state.leftPanelScrollOffset,
                               Max(0, LeftTotalLines(Flipped(state), size)
                                        - ViewportHeight))
                 /\ WithoutOffsets(twice) = WithoutOffsets(state)
                 /\ twice.detailScrollOffset = state.detailScrollOffset
                 /\ twice.leftPanelScrollOffset = after.leftPanelScrollOffset
                 /\ state.mode = "list" => twice = state
            ELSE after = state

\* C26 witness: detail mode, the left panel focused and scrolled, the header of
\* an expanded file selected, next to a second file
C26_Witness ==
    /\ pc = "dashboard"
    /\ state.mode = "detail"
    /\ state.focusedPanel = "left"
    /\ state.selectedCommentIndex = -1
    /\ state.leftPanelScrollOffset > 0
    /\ Len(state.files) = 2
    /\ state.files[state.selectedFileIndex + 1].expanded

BackKeys == {Key("escape"), Key("left")}

\* C27 (SpecScroll): in detail mode Escape or left with the right panel focused
\* only moves the focus to the left panel, with the left panel focused it only
\* sets the mode to list; so one press from right focus never reaches list mode
\* and two presses always do.
C27_StepBack ==
    (pc = "dashboard" /\ state.mode = "detail") =>
        \A key \in BackKeys :
            LET after == AfterKey(state, key, size)
            IN  /\ state.focusedPanel = "right" =>
                    /\ after = [state EXCEPT !.focusedPanel = "left"]
                    /\ \A key2 \in BackKeys :
                        AfterKey(after, key2, size) =
                            [state EXCEPT !.focusedPanel = "left", !.mode = "list"]
                /\ state.focusedPanel = "left" =>
                    after = [state EXCEPT !.mode = "list"]

\* C27 witness: detail mode with the left panel focused and the detail panel
\* still scrolled, as one Escape from the right panel leaves it
C27_Witness ==
    /\ pc = "dashboard"
    /\ state.mode = "detail"
    /\ state.focusedPanel = "left"
    /\ state.selectedCommentIndex >= 0
    /\ state.detailScrollOffset > 0

Ctrl(n) == [name |-> n, ctrl |-> TRUE]

\* the panel a key scrolls and by how many lines, in detail mode with the
\* given focus; "none" for the keys that do not scroll there
ScrollOf(key, focus) ==
    CASE key \in {Key("pagedown"), Ctrl("d")} -> [panel |-> focus, by |-> PageStep]
      [] key \in {Key("pageup"), Ctrl("u")} -> [panel |-> focus, by |-> -PageStep]
      [] focus = "right" /\ key \in {Key("up"), Key("k")} -> [panel |-> "right", by |-> -1]
      [] focus = "right" /\ key \in {Key("down"), Key("j")} -> [panel |-> "right", by |-> 1]
      [] focus = "left" /\ key \in {Ctrl("up"), Ctrl("k")} -> [panel |-> "left", by |-> -1]
      [] focus = "left" /\ key \in {Ctrl("down"), Ctrl("j")} -> [panel |-> "left", by |-> 1]
      [] OTHER -> [panel |-> "none", by |-> 0]

ScrollKeys ==
    {Key("pagedown"), Key("pageup"), Key("up"), Key("k"), Key("down"), Key("j"),
     Ctrl("d"), Ctrl("u"), Ctrl("up"), Ctrl("k"), Ctrl("down"), Ctrl("j")}

\* Session State with the offset of a panel moved by `by` lines, floor 0
Moved(s, panel, by) ==
    IF panel = "left"
    THEN [s EXCEPT !.leftPanelScrollOffset = Max(0, @ + by)]
    ELSE [s EXCEPT !.detailScrollOffset = Max(0, @ + by)]

\* the same, and not beyond the last page of the panel's content in detail mode
MovedWithinContent(s, panel, by, sz) ==
    LET m == Moved(s, panel, by)
    IN  IF s.mode # "detail" THEN m
        ELSE IF panel = "left"
        THEN [m EXCEPT !.leftPanelScrollOffset =
                 Min(@, Max(0, LeftTotalLines(m, sz) - ContentHeight(sz[2])))]
        ELSE [m EXCEPT !.detailScrollOffset =
                 Min(@, Max(0, RightTotalLines(m, sz) - ContentHeight(sz[2])))]

PanelUnder(x, width) == IF x <= LeftWidth(width) THEN "left" ELSE "right"

\* the state a wheel event leaves behind
AfterWheel(s, b, x, sz) == Render(Wheel(s, b, x, sz[1]), sz)

Unnamed == [name |-> "", ctrl |-> FALSE]

\* the state a left-button release leaves behind: in detail mode the focus
\* follows the pointer and the dashboard is rendered, otherwise the event goes
\* on to handleKeypress
AfterClick(s, x, sz) ==
    IF s.mode = "detail" THEN Render(Click(s, x, sz[1]), sz)
    ELSE AfterKey(s, Unnamed, sz)

\* C29 (SpecScroll): a left-button release in detail mode sets focusedPanel to
\* left when the pointer column is at most floor(0.35 * width) and to right
\* otherwise, and changes nothing else; in list mode it changes nothing.
C29_ClickSetsFocus ==
    pc = "dashboard" =>
        \A x \in MouseColumns(size[1]) :
            AfterClick(state, x, size) =
                IF state.mode = "detail"
                THEN [state EXCEPT !.focusedPanel =
                         IF 100 * x <= 35 * size[1] THEN "left" ELSE "right"]
                ELSE state

\* C29 witness: detail mode, both panels scrolled, the right panel focused
C29_Witness ==
    /\ pc = "dashboard"
    /\ state.mode = "detail"
    /\ state.focusedPanel = "right"
    /\ state.leftPanelScrollOffset > 0
    /\ state.detailScrollOffset > 0
    /\ state.detailScrollOffset < screen.rightTotal - ViewportHeight

\* Session State without the spinner frame and the scroll offsets
NavigationFields(s) ==
    [WithoutOffsets(s) EXCEPT !.spinnerFrame = 0]

\* C30 (SpecFold): a UI tick while status = running increases spinnerFrame by
\* exactly 1, renders, and changes no other navigation field; a UI tick while
\* the status is not running changes nothing; nothing but a UI tick changes
\* spinnerFrame during the session.
C30_TickAdvancesSpinner ==
    [][ /\ (pc = "dashboard" /\ uiTimer) =>
            IF state.status = "running"
            THEN /\ UiTick(state).spinnerFrame = state.spinnerFrame + 1
                 /\ NavigationFields(UiTick(state)) = NavigationFields(state)
            ELSE UiTick(state) = state
        /\ (pc = "dashboard" /\ pc' = "dashboard"
              /\ state'.spinnerFrame # state.spinnerFrame) =>
            /\ uiTimer
            /\ state.status = "running"
            /\ state'.spinnerFrame = state.spinnerFrame + 1
            /\ NavigationFields(state') = NavigationFields(state)
            /\ screen'.spin
            /\ screen'.frame = state'.spinnerFrame % SpinnerFrames
      ]_vars

\* C30 witness: the spinner advanced by a tick and shown, in detail mode
C30_Witness ==
    /\ pc = "dashboard"
    /\ state.status = "running"
    /\ state.mode = "detail"
    /\ state.spinnerFrame = 1
    /\ screen.spin
    /\ screen.frame = 1

C32_QuitLeadsToExit == quitPressed ~> (pc = "exited")

\* C32 (SpecQuit): in the dashboard a quit key is followed by the exit, and
\* the step that takes the key leaves Session State unchanged (the part of the
\* statement that the program keeps).
C32_DashboardQuit ==
    /\ (pc = "dashboard" /\ cleanups > 0) ~> (pc = "exited")
    /\ [][(pc = "dashboard" /\ cleanups' > cleanups) => state' = state]_vars

\* the "Suggested Fix" sections among the parts of the content parsed
FixParts == SelectSeq(call.parts, LAMBDA p : p.isFix)

\* C33 (SpecFix): the code-suggestion block is the text of the first
\* "Suggested Fix" section of the content, and is empty when the content has
\* no such section, whatever fenced blocks and "Prompt for AI" sections it has.
C33_CodeBlockIsSuggestedFix ==
    (call.fn = "parseCommentMetadata" /\ call.done) =>
        /\ FixParts = <<>> => call.out.codeBlock = <<>>
        /\ FixParts # <<>> => call.out.codeBlock = FixParts[1].body
        /\ call.out.codeBlock # <<>> => FixParts # <<>>

\* C33 witness: a content with a fenced block, then a "Prompt for AI" section,
\* then a "Suggested Fix" section, parsed to a non-empty code block
C33_Witness ==
    /\ call.fn = "parseCommentMetadata"
    /\ call.done
    /\ Len(call.parts) = 3
    /\ call.parts[1].text[1] = "fence"
    /\ Len(call.parts[2].text) > 4
    /\ call.parts[2].text[4] = "prompt"
    /\ call.parts[3].isFix
    /\ call.out.codeBlock # <<>>

\* C33 witness of the empty case: fenced blocks inside and outside a "Prompt
\* for AI" section, no "Suggested Fix" section, an empty code block
C33_WitnessNoSection ==
    /\ call.fn = "parseCommentMetadata"
    /\ call.done
    /\ Len(call.parts) = 2
    /\ call.parts[1].text[1] = "fence"
    /\ Len(call.parts[2].text) > 4
    /\ call.parts[2].text[4] = "prompt"
    /\ call.out.codeBlock = <<>>

\* a sequence of ids without a repeated id
NoRepeat(ids) == \A i, j \in 1..Len(ids) : ids[i] = ids[j] => i = j

\* the ids of a sequence
Range(ids) == { ids[k] : k \in 1..Len(ids) }

\* C34 (SpecPrompt): no comment id is parsed twice and no prompt is printed
\* twice; after the forEach every comment returned has been parsed, and its
\* prompt printed exactly when it is not empty; a running status reply leads
\* to the next poll; the process exits with code 1 on a failed status and on a
\* failed request, and with code 0 on any other status and on an interrupt.
C34_PromptsPrintedOnce ==
    /\ [](NoRepeat(promptOnly.parsed) /\ NoRepeat(promptOnly.printed))
    /\ [][PromptCommentsReply =>
            \A k \in 1..Len(service.comments) :
                LET c == service.comments[k]
                IN  /\ c.id \in Range(promptOnly'.parsed)
                    /\ c.id \in Range(promptOnly'.printed) <=> AiPrompt(c) # <<>>]_vars
    /\ [][(pc = "promptStatus" /\ pc' # "exited" /\ pc' # pc) =>
            (service.status = "running" /\ pc' = "promptSleep")]_vars
    /\ [][(pc = "promptSleep" /\ pc' # "exited" /\ pc' # pc) => pc' = "promptComments"]_vars
    /\ [][PromptStatusReply =>
            /\ service.status = "running" => pc' # "exited"
            /\ service.status = "failed" => (pc' = "exited" /\ exitCode' = 1)
            /\ service.status \notin {"running", "failed"} =>
                   (pc' = "exited" /\ exitCode' = 0)]_vars
    /\ [][PromptRequestFails => (pc' = "exited" /\ exitCode' = 1)]_vars
    /\ [][(pc # "exited" /\ pc' = "exited") =>
            exitCode' = IF PromptRequestFails \/ (service.status = "failed" /\ PromptStatusReply)
                        THEN 1 ELSE 0]_vars

\* C34 witness: the process has exited with code 0 after three comments were
\* returned over more than one poll, two prompts printed, one comment without
C34_Witness ==
    /\ pc = "exited"
    /\ exitCode = 0
    /\ promptOnly.status = "completed"
    /\ Len(promptOnly.parsed) = 3
    /\ Len(promptOnly.printed) = 2

\* C35 (SpecServed): once the status of the session has left running and no
\* poll cycle is in flight, every comment the service holds has been merged.
C35_NothingMissing ==
    (pc = "dashboard" /\ state.status # "running" /\ awaitComments + awaitStatus = 0) =>
        \A k \in 1..Len(service.comments) : Held(state, service.comments[k])

\* C35 (SpecPrompt): once the loop has seen a status other than running, every
\* comment the service holds has been processed.
C35_PromptNothingMissing ==
    promptOnly.status # "running" =>
        \A k \in 1..Len(service.comments) :
            service.comments[k].id \in promptOnly.processedCommentIds

\* the sum of the lengths of the comment lists of the file groups
RECURSIVE CommentCount(_)
CommentCount(files) ==
    IF files = <<>> THEN 0 ELSE Len(Head(files).comments) + CommentCount(Tail(files))

\* C36 (SpecMerge): totalComments is the sum of the lengths of the comment
\* lists of the file groups, every file group holds at least one comment, and
\* resolvedComments is 0.
C36_CountsAgree ==
    /\ state.totalComments = CommentCount(state.files)
    /\ \A g \in 1..Len(state.files) : Len(state.files[g].comments) >= 1
    /\ state.resolvedComments = 0

\* C36 witness: three comments in two file groups, counted 3, after a merge
\* that met a comment already held
C36_Witness ==
    /\ pc = "dashboard"
    /\ Len(state.files) = 2
    /\ state.totalComments = 3
    /\ CommentCount(state.files) = 3

\* C37 (SpecFold): when a comment is selected the selected file exists, is
\* expanded and holds that comment; and a step collapses a file only when the
\* cursor was on the header of that file.
C37_CursorNeverHidden ==
    /\ [](state.selectedCommentIndex >= 0 =>
            /\ HasFile(state)
            /\ SelectedFile(state).expanded
            /\ state.selectedCommentIndex < Len(SelectedFile(state).comments))
    /\ [][\A g \in 1..Len(state.files) :
            (pc' = "dashboard" /\ state.files[g].expanded /\ ~state'.files[g].expanded) =>
                (state.selectedFileIndex = g - 1 /\ state.selectedCommentIndex = -1)]_vars

\* C37 witness: the cursor on the header of the second file, below a collapsed
\* first file that holds a comment
C37_Witness ==
    /\ pc = "dashboard"
    /\ Len(state.files) = 2
    /\ ~state.files[1].expanded
    /\ Len(state.files[1].comments) > 0
    /\ state.selectedFileIndex = 1
    /\ state.selectedCommentIndex = -1

\* the item under the cursor: the path of the selected file and, when a
\* comment is selected, that comment
UnderCursor(s) ==
    IF ~HasFile(s) THEN <<>>
    ELSE IF s.selectedCommentIndex >= 0 /\ s.selectedCommentIndex < Len(SelectedFile(s).comments)
    THEN <<SelectedFile(s).filePath, SelectedFile(s).comments[s.selectedCommentIndex + 1]>>
    ELSE <<SelectedFile(s).filePath>>

\* a step of the dashboard that merges polled comments
MergeStep == pc = "dashboard" /\ PollCommentsReply(NavPool)

\* C38 (SpecInterleave): a merge leaves mode, focusedPanel, selectedFileIndex,
\* selectedCommentIndex and the expanded flag of every existing file group
\* unchanged; when the cursor rests on a file or a comment it rests on the
\* same one after the merge; and every group the merge creates is expanded.
C38_MergeKeepsCursor ==
    [][MergeStep =>
        /\ state'.mode = state.mode
        /\ state'.focusedPanel = state.focusedPanel
        /\ state'.selectedFileIndex = state.selectedFileIndex
        /\ state'.selectedCommentIndex = state.selectedCommentIndex
        /\ Len(state'.files) >= Len(state.files)
        /\ \A g \in 1..Len(state.files) :
            /\ state'.files[g].filePath = state.files[g].filePath
            /\ state'.files[g].expanded = state.files[g].expanded
        /\ HasFile(state) => UnderCursor(state') = UnderCursor(state)
        /\ \A g \in (Len(state.files) + 1)..Len(state'.files) : state'.files[g].expanded
      ]_vars

\* C38 witness: in the detail view, the cursor on the first comment of the
\* first file, which is followed by a second comment and by a second file
C38_Witness ==
    /\ pc = "dashboard"
    /\ state.mode = "detail"
    /\ Len(state.files) = 2
    /\ state.selectedFileIndex = 0
    /\ state.selectedCommentIndex = 0
    /\ Len(state.files[1].comments) = 2
    /\ state.files[1].comments[1].id = 1
    /\ state.files[2].filePath = "src/b.ts"

\* C39 (SpecInterleave): with the file list focused, when a down press moves
\* the cursor, an up press made next brings selectedFileIndex and
\* selectedCommentIndex back; and when an up press moves the cursor, a down
\* press made next brings them back.
C39_UpUndoesDown ==
    (pc = "dashboard" /\ LeftFocus(state)) =>
        /\ \A down \in DownKeys, up \in UpKeys :
            LET d == AfterKey(state, down, size)
            IN  ~SameCursor(d, state) => SameCursor(AfterKey(d, up, size), state)
        /\ \A up \in UpKeys, down \in DownKeys :
            LET u == AfterKey(state, up, size)
            IN  ~SameCursor(u, state) => SameCursor(AfterKey(u, down, size), state)

\* C39 witness: the cursor on the last comment of an expanded first file of two
\* comments, in the detail view with the file list focused; down moves it to
\* the header of the second file
C39_Witness ==
    /\ pc = "dashboard"
    /\ state.mode = "detail"
    /\ state.focusedPanel = "left"
    /\ Len(state.files) = 2
    /\ state.files[1].expanded
    /\ state.selectedFileIndex = 0
    /\ state.selectedCommentIndex = 1
    /\ AfterKey(state, Key("down"), size).selectedFileIndex = 1

\* C39 witness with a collapsed file: the cursor on the header of the second
\* file, below a collapsed first file; up moves it to the first header
C39_WitnessCollapsed ==
    /\ pc = "dashboard"
    /\ LeftFocus(state)
    /\ Len(state.files) = 2
    /\ ~state.files[1].expanded
    /\ state.selectedFileIndex = 1
    /\ state.selectedCommentIndex = -1
    /\ AfterKey(state, Key("up"), size).selectedFileIndex = 0
    /\ AfterKey(state, Key("up"), size).selectedCommentIndex = -1

\* C40 (SpecScroll): the screen the last render wrote is the screen a render
\* of the state it left behind writes.
C40_RenderTwiceSameScreen ==
    pc = "dashboard" => screen = Shown(state, size)

\* C40 (SpecScroll): the part that holds: a render of the state a render left
\* behind stores nothing new, and writes what a third render writes.
C40_SecondRenderIsStable ==
    pc = "dashboard" =>
        /\ Render(state, size) = state
        /\ Shown(Render(state, size), size) = Shown(state, size)

====
